---- MODULE Spec2Model ----
(***************************************************************************)
(* Model of the metrics Aggregator of relay-metrics                        *)
(* (src/relay-metrics/src/aggregation.rs): bucket values, bucket keys,     *)
(* the cost tracker, the ingest paths (insert, merge, merge_all), the      *)
(* flush sweep with merge-back, and the actor's message handlers.          *)
(*                                                                         *)
(* Floats are modelled by small integers (exactly representable in f64).   *)
(* Instants are milliseconds since the monotonic clock's origin; Unix      *)
(* timestamps are whole seconds.                                           *)
(***************************************************************************)
EXTENDS Bags, FiniteSets, Integers, Sequences, TLC

VARIABLES
    config,        \* Aggregator.config (immutable after construction)
    buckets,       \* Aggregator.buckets: HashMap<BucketKey, QueuedBucket>
    cost_tracker,  \* Aggregator.cost_tracker: [total_cost, cost_per_project_key]
    state,         \* Aggregator.state: "Running" | "ShuttingDown"
    now,           \* Instant::now(), in ms since the monotonic origin
    inflight,      \* bag of FlushBuckets messages sent and not yet answered
    admitted,      \* number of ingested elements admitted so far (bounded)
    helper_call    \* the last call of a helper of AggregatorConfig made on its
                   \* own, with its arguments and the value it returned

vars == <<config, buckets, cost_tracker, state, now, inflight, admitted, helper_call>>

----------------------------------------------------------------------------
(* Bounds of the model.                                                    *)

\* Metrics and buckets submitted from outside and taken up in one run.
MaxAdmitted == 2
\* Elements of one InsertMetrics / MergeBuckets message.
MaxBatch == 2
\* Sweep ticks the clock advances after construction.
MaxTicks == 1
\* u64 is scaled down to this many bits, so that saturation is representable.
TimestampBits == 16
\* The 53-bit significand of f64 is scaled down to this many bits, so that
\* rounding is representable.
MantissaBits == 3

\* Bound on the samples in a value that is merged into again.
MaxMerged == 3
\* Bound on the total cost that the cost tracker on its own is driven to.
MaxTrackedCost == 200

----------------------------------------------------------------------------
(* Option<T>                                                               *)

None == << >>
Some(x) == << x >>
IsSome(o) == Len(o) = 1
Unwrap(o) == o[1]

----------------------------------------------------------------------------
(* Clock.                                                                  *)

\* const FLUSH_INTERVAL: Duration = Duration::from_millis(100)
FLUSH_INTERVAL == 100

\* Wall-clock time (ms since the Unix epoch) at the monotonic origin, and the
\* instant at which the aggregator is constructed.
OriginWallMs == 7 * 1000 + 500
StartMs == 34 * FLUSH_INTERVAL + 90

\* UnixTimestamp::now().as_secs()
UnixNow(instant) == (OriginWallMs + instant) \div 1000

\* UnixTimestamp::to_instant: the monotonic instant of a timestamp, or None
\* when the timestamp predates the monotonic origin.
to_instant(timestamp) ==
    IF timestamp * 1000 >= OriginWallMs
    THEN Some(timestamp * 1000 - OriginWallMs)
    ELSE None

U64_MAX == 2 ^ TimestampBits - 1
saturating_add(a, b) == IF a + b > U64_MAX THEN U64_MAX ELSE a + b
saturating_sub(a, b) == IF a > b THEN a - b ELSE 0

----------------------------------------------------------------------------
(* f64, for the non-negative whole numbers the model uses: a number is     *)
(* representable when it has at most MantissaBits significant bits, and a  *)
(* sum is rounded to the nearest representable number, ties to even.       *)

\* The distance between neighbouring representable numbers around x.
RECURSIVE Ulp(_)
Ulp(x) == IF x < 2 ^ MantissaBits THEN 1 ELSE 2 * Ulp(x \div 2)

RoundToF64(x) ==
    LET ulp == Ulp(x)
        quotient == x \div ulp
        remainder == x % ulp
    IN  IF 2 * remainder > ulp \/ (2 * remainder = ulp /\ quotient % 2 = 1)
        THEN (quotient + 1) * ulp
        ELSE quotient * ulp

\* lhs + rhs on f64
f64_add(lhs, rhs) == RoundToF64(lhs + rhs)

----------------------------------------------------------------------------
(* mem::size_of of the types that enter the cost estimate.                 *)

SizeOfBucketKey == 112
SizeOfBucketValue == 48
SizeOfSetType == 4
SizeOfDistributionType == 8
SizeOfCount == 4

----------------------------------------------------------------------------
(* GaugeValue                                                              *)

Max2(a, b) == IF a >= b THEN a ELSE b
Min2(a, b) == IF a <= b THEN a ELSE b

GaugeSingle(value) ==
    [max |-> value, min |-> value, sum |-> value, last |-> value, count |-> 1]

\* Variant: an inserted sample leaves the extremes as they are.
GaugeInsertKeepingExtremes(g, value) ==
    [max |-> g.max, min |-> g.min,
     sum |-> f64_add(g.sum, value), last |-> value, count |-> g.count + 1]

GaugeInsert(g, value) ==
    [max |-> Max2(g.max, value), min |-> Min2(g.min, value),
     sum |-> f64_add(g.sum, value), last |-> value, count |-> g.count + 1]

\* Variant: the merged gauge keeps its own last value.
GaugeMergeKeepingLast(g, other) ==
    [max |-> Max2(g.max, other.max), min |-> Min2(g.min, other.min),
     sum |-> f64_add(g.sum, other.sum), last |-> g.last,
     count |-> g.count + other.count]

GaugeMerge(g, other) ==
    [max |-> Max2(g.max, other.max), min |-> Min2(g.min, other.min),
     sum |-> f64_add(g.sum, other.sum), last |-> other.last,
     count |-> g.count + other.count]

----------------------------------------------------------------------------
(* DistributionValue: [values: BTreeMap value -> count, length]            *)

DistNew == [values |-> [v \in {} |-> 0], length |-> 0]

\* Variant: a count of 0 is stored like any other.
insert_multi_storing_zero(d, value, count) ==
    LET length == d.length + count
        values == IF value \in DOMAIN d.values
                  THEN [d.values EXCEPT ![value] = @ + count]
                  ELSE d.values @@ (value :> count)
    IN  [dist |-> [values |-> values, length |-> length], ret |-> values[value]]

\* insert_multi: the distribution after the call and the returned count.
insert_multi(d, value, count) ==
    LET length == d.length + count
    IN  IF count = 0
        THEN [dist |-> [values |-> d.values, length |-> length], ret |-> 0]
        ELSE LET values == IF value \in DOMAIN d.values
                           THEN [d.values EXCEPT ![value] = @ + count]
                           ELSE d.values @@ (value :> count)
             IN  [dist |-> [values |-> values, length |-> length],
                  ret |-> values[value]]

DistInsert(d, value) == insert_multi(d, value, 1)

\* DistributionValue::get
DistGet(d, value) == IF value \in DOMAIN d.values THEN d.values[value] ELSE 0

SetMin(S) == CHOOSE x \in S : \A y \in S : x <= y

\* Extend<(f64, Count)>: insert_multi of every (value, count) of `other`,
\* in ascending order of the values.
RECURSIVE DistExtendFrom(_, _, _)
DistExtendFrom(d, other, todo) ==
    IF todo = {} THEN d
    ELSE LET v == SetMin(todo)
         IN  DistExtendFrom(insert_multi(d, v, other.values[v]).dist, other, todo \ {v})

\* Variant: every unique value of `other` is inserted once.
DistExtendUnique(d, other) ==
    DistExtendFrom(d, [other EXCEPT !.values = [v \in DOMAIN other.values |-> 1]],
                   DOMAIN other.values)

DistExtend(d, other) == DistExtendFrom(d, other, DOMAIN other.values)

----------------------------------------------------------------------------
(* MetricValue: [ty, v].  BucketValue: a record tagged by ty.              *)

MetricTypes == {"Counter", "Distribution", "Set", "Gauge"}

CounterValue(x) == [ty |-> "Counter", value |-> x]
DistributionValue(d) == [ty |-> "Distribution", dist |-> d]
SetValue(s) == [ty |-> "Set", set |-> s]
GaugeValue(g) == [ty |-> "Gauge", gauge |-> g]

\* BucketValue::cost
ValueCost(value) ==
    LET allocated_cost ==
            CASE value.ty = "Counter" -> 0
              [] value.ty = "Set" -> SizeOfSetType * Cardinality(value.set)
              [] value.ty = "Gauge" -> 0
              [] value.ty = "Distribution" ->
                    Cardinality(DOMAIN value.dist.values)
                        * (SizeOfDistributionType + SizeOfCount)
    IN  SizeOfBucketValue + allocated_cost

\* impl From<MetricValue> for BucketValue
FromMetricValue(mv) ==
    CASE mv.ty = "Counter" -> CounterValue(mv.v)
      [] mv.ty = "Distribution" -> DistributionValue(DistInsert(DistNew, mv.v).dist)
      [] mv.ty = "Set" -> SetValue({mv.v})
      [] mv.ty = "Gauge" -> GaugeValue(GaugeSingle(mv.v))

\* Variant: a value of another type replaces the target.
BucketMergeIntoCoercing(rhs, bucket_value) ==
    IF bucket_value.ty # rhs.ty
    THEN [result |-> "InvalidTypes", value |-> rhs]
    ELSE [result |-> "Ok",
          value |->
            CASE rhs.ty = "Counter" -> CounterValue(f64_add(bucket_value.value, rhs.value))
              [] rhs.ty = "Distribution" ->
                    DistributionValue(DistExtend(bucket_value.dist, rhs.dist))
              [] rhs.ty = "Set" -> SetValue(bucket_value.set \cup rhs.set)
              [] rhs.ty = "Gauge" -> GaugeValue(GaugeMerge(bucket_value.gauge, rhs.gauge))]

\* impl MergeValue for BucketValue: the result and the target afterwards.
BucketMergeInto(rhs, bucket_value) ==
    IF bucket_value.ty # rhs.ty
    THEN [result |-> "InvalidTypes", value |-> bucket_value]
    ELSE [result |-> "Ok",
          value |->
            CASE rhs.ty = "Counter" -> CounterValue(f64_add(bucket_value.value, rhs.value))
              [] rhs.ty = "Distribution" ->
                    DistributionValue(DistExtend(bucket_value.dist, rhs.dist))
              [] rhs.ty = "Set" -> SetValue(bucket_value.set \cup rhs.set)
              [] rhs.ty = "Gauge" -> GaugeValue(GaugeMerge(bucket_value.gauge, rhs.gauge))]

\* Variant: a counter sample replaces the counter instead of adding to it.
MetricMergeIntoReplacing(mv, bucket_value) ==
    IF bucket_value.ty # mv.ty
    THEN [result |-> "InvalidTypes", value |-> bucket_value]
    ELSE [result |-> "Ok",
          value |->
            CASE mv.ty = "Counter" -> CounterValue(mv.v)
              [] mv.ty = "Distribution" ->
                    DistributionValue(DistInsert(bucket_value.dist, mv.v).dist)
              [] mv.ty = "Set" -> SetValue(bucket_value.set \cup {mv.v})
              [] mv.ty = "Gauge" -> GaugeValue(GaugeInsert(bucket_value.gauge, mv.v))]

\* impl MergeValue for MetricValue
MetricMergeInto(mv, bucket_value) ==
    IF bucket_value.ty # mv.ty
    THEN [result |-> "InvalidTypes", value |-> bucket_value]
    ELSE [result |-> "Ok",
          value |->
            CASE mv.ty = "Counter" -> CounterValue(f64_add(bucket_value.value, mv.v))
              [] mv.ty = "Distribution" ->
                    DistributionValue(DistInsert(bucket_value.dist, mv.v).dist)
              [] mv.ty = "Set" -> SetValue(bucket_value.set \cup {mv.v})
              [] mv.ty = "Gauge" -> GaugeValue(GaugeInsert(bucket_value.gauge, mv.v))]

\* Variant: a merge of mismatched types reports InvalidTypes after it has
\* overwritten the target.
merge_into_overwriting(value, bucket_value) ==
    IF bucket_value.ty # value.ty
    THEN [result |-> "InvalidTypes",
          value |-> IF "v" \in DOMAIN value THEN FromMetricValue(value) ELSE value]
    ELSE IF "v" \in DOMAIN value THEN MetricMergeInto(value, bucket_value)
    ELSE BucketMergeInto(value, bucket_value)

\* A MergeValue is either a MetricValue (field v) or a BucketValue.
IsMetricValue(value) == "v" \in DOMAIN value
merge_into(value, bucket_value) ==
    IF IsMetricValue(value) THEN MetricMergeInto(value, bucket_value)
    ELSE BucketMergeInto(value, bucket_value)
IntoBucketValue(value) ==
    IF IsMetricValue(value) THEN FromMetricValue(value) ELSE value

----------------------------------------------------------------------------
(* AggregatorConfig.  The limits are chosen at construction; the other      *)
(* fields are those of a test configuration with short intervals.           *)

NoLimits == <<None, None>>
TightLimits == <<Some(330), Some(169)>>

AggregatorConfig(max_total, max_project) ==
    [bucket_interval |-> 2,
     initial_delay |-> 1,
     debounce_delay |-> 0,
     max_secs_in_past |-> 4,
     max_secs_in_future |-> 1,
     max_name_length |-> 5,
     max_tag_key_length |-> 5,
     max_tag_value_length |-> 5,
     max_total_bucket_bytes |-> max_total,
     max_project_key_bucket_bytes |-> max_project]

Configs == {AggregatorConfig(l[1], l[2]) : l \in {NoLimits, TightLimits}}

\* Variant: the target is the end of the incoming bucket, not its middle.
get_bucket_timestamp_of_end(cfg, timestamp, bucket_width, instant) ==
    LET unix_now == UnixNow(instant)
        min_timestamp == saturating_sub(unix_now, cfg.max_secs_in_past)
        max_timestamp == saturating_add(unix_now, cfg.max_secs_in_future)
        ts == (saturating_add(timestamp, bucket_width) \div cfg.bucket_interval)
                    * cfg.bucket_interval
    IN  IF ts < min_timestamp \/ ts > max_timestamp
        THEN [result |-> "InvalidTimestamp", timestamp |-> ts]
        ELSE [result |-> "Ok", timestamp |-> ts]

\* Variant: the two bounds of the accepted window are refused.
get_bucket_timestamp_exclusive(cfg, timestamp, bucket_width, instant) ==
    LET unix_now == UnixNow(instant)
        min_timestamp == saturating_sub(unix_now, cfg.max_secs_in_past)
        max_timestamp == saturating_add(unix_now, cfg.max_secs_in_future)
        ts == (saturating_add(timestamp, bucket_width \div 2) \div cfg.bucket_interval)
                    * cfg.bucket_interval
    IN  IF ts <= min_timestamp \/ ts >= max_timestamp
        THEN [result |-> "InvalidTimestamp", timestamp |-> ts]
        ELSE [result |-> "Ok", timestamp |-> ts]

\* get_bucket_timestamp: the aligned timestamp, or InvalidTimestamp.
get_bucket_timestamp(cfg, timestamp, bucket_width, instant) ==
    LET unix_now == UnixNow(instant)
        min_timestamp == saturating_sub(unix_now, cfg.max_secs_in_past)
        max_timestamp == saturating_add(unix_now, cfg.max_secs_in_future)
        center == saturating_add(timestamp, bucket_width \div 2)
        ts == (center \div cfg.bucket_interval) * cfg.bucket_interval
    IN  IF ts < min_timestamp \/ ts > max_timestamp
        THEN [result |-> "InvalidTimestamp", timestamp |-> ts]
        ELSE [result |-> "Ok", timestamp |-> ts]

\* FnvHasher (FNV-1a, 32 bit) over the ASCII project key, for the project
\* keys of the model.
PK1 == "a94ae32be2584e0bbd7a4cbb95971fed"
PK2 == "a94ae32be2584e0bbd7a4cbb95971fee"
ProjectKeys == {PK1, PK2}

FnvHash(project_key) ==
    CASE project_key = PK1 -> 1536996076
      [] project_key = PK2 -> 1553773695

\* Variant: the initial flush time is used even when it has passed.
get_flush_time_initial(cfg, bucket_timestamp, project_key, instant) ==
    LET converted == to_instant(bucket_timestamp)
    IN  IF IsSome(converted)
        THEN Unwrap(converted) + cfg.bucket_interval * 1000 + cfg.initial_delay * 1000
                + (FnvHash(project_key) % (cfg.bucket_interval * 1000))
        ELSE instant + cfg.debounce_delay * 1000

\* Variant: the shift is derived from the bucket as well as from the project.
get_flush_time_shift_of_bucket(cfg, bucket_timestamp, project_key, instant) ==
    LET converted == to_instant(bucket_timestamp)
        initial_flush == Unwrap(converted) + cfg.bucket_interval * 1000
                            + cfg.initial_delay * 1000
    IN  IF IsSome(converted) /\ initial_flush > instant
        THEN initial_flush + ((FnvHash(project_key) + bucket_timestamp)
                                    % (cfg.bucket_interval * 1000))
        ELSE instant + cfg.debounce_delay * 1000

\* Variant: an initial flush that is due right now still counts as pending.
get_flush_time_when_due(cfg, bucket_timestamp, project_key, instant) ==
    LET converted == to_instant(bucket_timestamp)
        initial_flush == Unwrap(converted) + cfg.bucket_interval * 1000
                            + cfg.initial_delay * 1000
    IN  IF IsSome(converted) /\ initial_flush >= instant
        THEN initial_flush + (FnvHash(project_key) % (cfg.bucket_interval * 1000))
        ELSE instant + cfg.debounce_delay * 1000

\* get_flush_time: the instant at which a new bucket is to be flushed.
get_flush_time(cfg, bucket_timestamp, project_key, instant) ==
    LET converted == to_instant(bucket_timestamp)
        initial_flush == Unwrap(converted) + cfg.bucket_interval * 1000
                            + cfg.initial_delay * 1000
        shift_millis == FnvHash(project_key) % (cfg.bucket_interval * 1000)
    IN  IF IsSome(converted) /\ initial_flush > instant
        THEN initial_flush + shift_millis
        ELSE instant + cfg.debounce_delay * 1000

----------------------------------------------------------------------------
(* BucketKey: [project_key, timestamp, metric_name, metric_type,           *)
(* metric_unit, tags]; tags is a set of <<key, value>> pairs.              *)

\* Variant: the unit is not part of the key.
BucketKeyWithoutUnit(project_key, timestamp, name, ty, unit, tags) ==
    [project_key |-> project_key, timestamp |-> timestamp, metric_name |-> name,
     metric_type |-> ty, metric_unit |-> "none", tags |-> tags]

BucketKey(project_key, timestamp, name, ty, unit, tags) ==
    [project_key |-> project_key, timestamp |-> timestamp, metric_name |-> name,
     metric_type |-> ty, metric_unit |-> unit, tags |-> tags]

RECURSIVE TagBytes(_)
TagBytes(tags) ==
    IF tags = {} THEN 0
    ELSE LET t == CHOOSE x \in tags : TRUE
         IN  Len(t[1]) + Len(t[2]) + TagBytes(tags \ {t})

\* BucketKey::cost
KeyCost(key) == SizeOfBucketKey + Len(key.metric_name) + TagBytes(key.tags)

\* protocol::is_valid_mri: a type prefix, a colon and a namespaced path.
is_valid_mri(name) == name \in {"c:foo", "c:bar", "c:foobar"}

\* protocol::is_valid_tag_key
is_valid_tag_key(tag_key) == tag_key \in {"k", "env", "overlongkey"}

\* protocol::validate_tag_value: normalizes the value in place (NUL bytes,
\* written ^@ here, are stripped).
validate_tag_value(tag_value) ==
    CASE tag_value = "a^@b" -> "ab"
      [] OTHER -> tag_value

\* Variant: the characters of the name are examined before its length.
validate_metric_name_chars_first(cfg, key) ==
    IF ~is_valid_mri(key.metric_name)
    THEN [result |-> "InvalidCharacters", key |-> key]
    ELSE IF Len(key.metric_name) > cfg.max_name_length
    THEN [result |-> "InvalidStringLength", key |-> key]
    ELSE [result |-> "Ok", key |-> key]

validate_metric_name(cfg, key) ==
    IF Len(key.metric_name) > cfg.max_name_length
    THEN [result |-> "InvalidStringLength", key |-> key]
    ELSE IF ~is_valid_mri(key.metric_name)
    THEN [result |-> "InvalidCharacters", key |-> key]
    ELSE [result |-> "Ok", key |-> key]

\* Variant: the length of tag values is not limited.
validate_metric_tags_of_any_value(cfg, key) ==
    LET retained == {t \in key.tags :
                        /\ ~(Len(t[1]) > cfg.max_tag_key_length)
                        /\ is_valid_tag_key(t[1])}
    IN  [key EXCEPT !.tags = {<<t[1], validate_tag_value(t[2])>> : t \in retained}]

validate_metric_tags(cfg, key) ==
    LET retained == {t \in key.tags :
                        /\ ~(Len(t[1]) > cfg.max_tag_key_length)
                        /\ ~(Len(t[2]) > cfg.max_tag_value_length)
                        /\ is_valid_tag_key(t[1])}
    IN  [key EXCEPT !.tags = {<<t[1], validate_tag_value(t[2])>> : t \in retained}]

validate_bucket_key(cfg, key) ==
    LET named == validate_metric_name(cfg, key)
    IN  IF named.result # "Ok" THEN named
        ELSE [result |-> "Ok", key |-> validate_metric_tags(cfg, named.key)]

----------------------------------------------------------------------------
(* CostTracker: [total_cost, cost_per_project_key]                         *)

CostTrackerDefault == [total_cost |-> 0, cost_per_project_key |-> [p \in {} |-> 0]]

\* Variant: the total limit counts as exceeded only strictly above it.
totals_cost_above(tracker, max_total_cost) ==
    IsSome(max_total_cost) /\ tracker.total_cost > Unwrap(max_total_cost)

totals_cost_exceeded(tracker, max_total_cost) ==
    IsSome(max_total_cost) /\ tracker.total_cost >= Unwrap(max_total_cost)

\* Variant: the limit of the project is consulted before the total limit.
check_limits_project_first(tracker, project_key, max_total_cost, max_project_cost) ==
    LET project_cost == IF project_key \in DOMAIN tracker.cost_per_project_key
                        THEN tracker.cost_per_project_key[project_key]
                        ELSE 0
    IN  IF IsSome(max_project_cost) /\ project_cost >= Unwrap(max_project_cost)
        THEN "ProjectLimitExceeded"
        ELSE IF IsSome(max_total_cost) /\ tracker.total_cost >= Unwrap(max_total_cost)
        THEN "TotalLimitExceeded"
        ELSE "Ok"

check_limits_exceeded(tracker, project_key, max_total_cost, max_project_cost) ==
    IF totals_cost_exceeded(tracker, max_total_cost)
    THEN "TotalLimitExceeded"
    ELSE LET project_cost == IF project_key \in DOMAIN tracker.cost_per_project_key
                             THEN tracker.cost_per_project_key[project_key]
                             ELSE 0
         IN  IF IsSome(max_project_cost) /\ project_cost >= Unwrap(max_project_cost)
             THEN "ProjectLimitExceeded"
             ELSE "Ok"

add_cost(tracker, project_key, cost) ==
    LET per == tracker.cost_per_project_key
        project_cost == IF project_key \in DOMAIN per THEN per[project_key] ELSE 0
    IN  [total_cost |-> tracker.total_cost + cost,
         cost_per_project_key |->
            [p \in DOMAIN per \cup {project_key} |->
                IF p = project_key THEN project_cost + cost ELSE per[p]]]

\* Variant: the total is lowered by the requested amount.
subtract_cost_as_requested(tracker, project_key, cost) ==
    LET per == tracker.cost_per_project_key
    IN  IF project_key \notin DOMAIN per
        THEN tracker
        ELSE LET project_cost == per[project_key]
                 remaining == IF cost > project_cost THEN 0 ELSE project_cost - cost
             IN  [total_cost |-> saturating_sub(tracker.total_cost, cost),
                  cost_per_project_key |->
                    IF remaining = 0
                    THEN [p \in DOMAIN per \ {project_key} |-> per[p]]
                    ELSE [per EXCEPT ![project_key] = remaining]]

subtract_cost(tracker, project_key, cost) ==
    LET per == tracker.cost_per_project_key
    IN  IF project_key \notin DOMAIN per
        THEN tracker
        ELSE LET project_cost == per[project_key]
                 remaining == IF cost > project_cost THEN 0 ELSE project_cost - cost
                 total == IF cost > project_cost
                          THEN saturating_sub(tracker.total_cost, project_cost)
                          ELSE saturating_sub(tracker.total_cost, cost)
             IN  [total_cost |-> total,
                  cost_per_project_key |->
                    IF remaining = 0
                    THEN [p \in DOMAIN per \ {project_key} |-> per[p]]
                    ELSE [per EXCEPT ![project_key] = remaining]]

----------------------------------------------------------------------------
(* Aggregator.  `slf` is [buckets, cost_tracker, state]; an entry of       *)
(* buckets is a QueuedBucket [flush_at, value].  Every ingest operation    *)
(* yields the aggregator afterwards and its Result ("Ok" or the error      *)
(* kind).                                                                  *)

QueuedBucket(flush_at, value) == [flush_at |-> flush_at, value |-> value]

\* Entry::Occupied arm of merge_in: saturating difference of the value costs.
OccupiedAddedCost(cost_before, cost_after) == saturating_sub(cost_after, cost_before)

\* Variant: a new entry is charged for its value alone.
VacantAddedCostOfValue(key, bucket) == ValueCost(bucket)

\* Entry::Vacant arm of merge_in: cost of the key plus cost of the new value.
VacantAddedCost(key, bucket) == KeyCost(key) + ValueCost(bucket)

\* Variant: every merge into an entry computes its flush time anew.
merge_in_rescheduling(cfg, slf, key0, value, instant) ==
    LET timestamp == key0.timestamp
        project_key == key0.project_key
        validated == validate_bucket_key(cfg, key0)
        key == validated.key
        limits == check_limits_exceeded(slf.cost_tracker, project_key,
                        cfg.max_total_bucket_bytes, cfg.max_project_key_bucket_bytes)
    IN  IF validated.result # "Ok" THEN [slf |-> slf, result |-> validated.result]
        ELSE IF limits # "Ok" THEN [slf |-> slf, result |-> limits]
        ELSE IF key \in DOMAIN slf.buckets
        THEN LET bucket_value == slf.buckets[key].value
                 cost_before == ValueCost(bucket_value)
                 merged == merge_into(value, bucket_value)
                 cost_after == ValueCost(merged.value)
                 added_cost == OccupiedAddedCost(cost_before, cost_after)
                 stored == [slf.buckets EXCEPT
                               ![key].value = merged.value,
                               ![key].flush_at =
                                   get_flush_time(cfg, timestamp, project_key, instant)]
             IN  IF merged.result # "Ok"
                 THEN [slf |-> [slf EXCEPT !.buckets = stored], result |-> merged.result]
                 ELSE [slf |-> [slf EXCEPT
                                    !.buckets = stored,
                                    !.cost_tracker =
                                        add_cost(slf.cost_tracker, project_key, added_cost)],
                       result |-> "Ok"]
        ELSE LET flush_at == get_flush_time(cfg, timestamp, project_key, instant)
                 bucket == IntoBucketValue(value)
                 added_cost == VacantAddedCost(key, bucket)
             IN  [slf |-> [slf EXCEPT
                                !.buckets = slf.buckets @@ (key :> QueuedBucket(flush_at, bucket)),
                                !.cost_tracker =
                                    add_cost(slf.cost_tracker, project_key, added_cost)],
                  result |-> "Ok"]

\* Aggregator::merge_in
merge_in(cfg, slf, key0, value, instant) ==
    LET timestamp == key0.timestamp
        project_key == key0.project_key
        validated == validate_bucket_key(cfg, key0)
        key == validated.key
        limits == check_limits_exceeded(slf.cost_tracker, project_key,
                        cfg.max_total_bucket_bytes, cfg.max_project_key_bucket_bytes)
    IN  IF validated.result # "Ok" THEN [slf |-> slf, result |-> validated.result]
        ELSE IF limits # "Ok" THEN [slf |-> slf, result |-> limits]
        ELSE IF key \in DOMAIN slf.buckets
        THEN LET bucket_value == slf.buckets[key].value
                 cost_before == ValueCost(bucket_value)
                 merged == merge_into(value, bucket_value)
                 cost_after == ValueCost(merged.value)
                 added_cost == OccupiedAddedCost(cost_before, cost_after)
                 stored == [slf.buckets EXCEPT ![key].value = merged.value]
             IN  IF merged.result # "Ok"
                 THEN [slf |-> [slf EXCEPT !.buckets = stored], result |-> merged.result]
                 ELSE [slf |-> [slf EXCEPT
                                    !.buckets = stored,
                                    !.cost_tracker =
                                        add_cost(slf.cost_tracker, project_key, added_cost)],
                       result |-> "Ok"]
        ELSE LET flush_at == get_flush_time(cfg, timestamp, project_key, instant)
                 bucket == IntoBucketValue(value)
                 added_cost == VacantAddedCost(key, bucket)
             IN  [slf |-> [slf EXCEPT
                                !.buckets = slf.buckets @@ (key :> QueuedBucket(flush_at, bucket)),
                                !.cost_tracker =
                                    add_cost(slf.cost_tracker, project_key, added_cost)],
                  result |-> "Ok"]

\* Variant: insert refuses every metric once the aggregator is shutting down.
insert_while_running(cfg, slf, project_key, metric, instant) ==
    LET aligned == get_bucket_timestamp(cfg, metric.timestamp, 0, instant)
        key == BucketKey(project_key, aligned.timestamp, metric.name, metric.value.ty,
                         metric.unit, metric.tags)
    IN  IF aligned.result # "Ok" \/ slf.state = "ShuttingDown"
        THEN [slf |-> slf, result |-> "InvalidTimestamp"]
        ELSE merge_in(cfg, slf, key, metric.value, instant)

\* Aggregator::insert
insert(cfg, slf, project_key, metric, instant) ==
    LET aligned == get_bucket_timestamp(cfg, metric.timestamp, 0, instant)
        key == BucketKey(project_key, aligned.timestamp, metric.name, metric.value.ty,
                         metric.unit, metric.tags)
    IN  IF aligned.result # "Ok" THEN [slf |-> slf, result |-> aligned.result]
        ELSE merge_in(cfg, slf, key, metric.value, instant)

\* Variant: the key of a merged bucket carries the Counter type whatever the
\* bucket holds.
merge_keyed_as_counter(cfg, slf, project_key, bucket, instant) ==
    LET aligned == get_bucket_timestamp(cfg, bucket.timestamp, bucket.width, instant)
        key == BucketKey(project_key, aligned.timestamp, bucket.name, "Counter",
                         bucket.unit, bucket.tags)
    IN  IF aligned.result # "Ok" THEN [slf |-> slf, result |-> aligned.result]
        ELSE merge_in(cfg, slf, key, bucket.value, instant)

\* Aggregator::merge
merge(cfg, slf, project_key, bucket, instant) ==
    LET aligned == get_bucket_timestamp(cfg, bucket.timestamp, bucket.width, instant)
        key == BucketKey(project_key, aligned.timestamp, bucket.name, bucket.value.ty,
                         bucket.unit, bucket.tags)
    IN  IF aligned.result # "Ok" THEN [slf |-> slf, result |-> aligned.result]
        ELSE merge_in(cfg, slf, key, bucket.value, instant)

\* Variant: merge_all gives up at the first bucket that fails.
RECURSIVE MergeAllUntilFailure(_, _, _, _, _, _)
MergeAllUntilFailure(cfg, slf, project_key, bucket_list, instant, logged) ==
    IF bucket_list = << >>
    THEN [slf |-> slf, result |-> "Ok", logged |-> logged]
    ELSE LET r == merge(cfg, slf, project_key, Head(bucket_list), instant)
         IN  IF r.result # "Ok"
             THEN [slf |-> r.slf, result |-> "Ok", logged |-> Append(logged, r.result)]
             ELSE MergeAllUntilFailure(cfg, r.slf, project_key, Tail(bucket_list),
                                       instant, logged)

\* Aggregator::merge_all: every bucket is merged in order; an error is
\* logged and the loop goes on.  `logged` collects the errors logged.
RECURSIVE MergeAllFrom(_, _, _, _, _, _)
MergeAllFrom(cfg, slf, project_key, bucket_list, instant, logged) ==
    IF bucket_list = << >>
    THEN [slf |-> slf, result |-> "Ok", logged |-> logged]
    ELSE LET r == merge(cfg, slf, project_key, Head(bucket_list), instant)
         IN  MergeAllFrom(cfg, r.slf, project_key, Tail(bucket_list), instant,
                          IF r.result = "Ok" THEN logged ELSE Append(logged, r.result))

merge_all(cfg, slf, project_key, bucket_list, instant) ==
    MergeAllFrom(cfg, slf, project_key, bucket_list, instant, << >>)

\* Variant: a metric that fails is skipped and the metrics after it are
\* still inserted; the first failure is returned in the end.
RECURSIVE HandleInsertMetricsContinuing(_, _, _, _, _)
HandleInsertMetricsContinuing(cfg, slf, project_key, metrics, instant) ==
    IF metrics = << >>
    THEN [slf |-> slf, result |-> "Ok"]
    ELSE LET r == insert(cfg, slf, project_key, Head(metrics), instant)
             rest == HandleInsertMetricsContinuing(cfg, r.slf, project_key,
                                                   Tail(metrics), instant)
         IN  IF r.result # "Ok" THEN [slf |-> rest.slf, result |-> r.result]
             ELSE rest

\* Handler<InsertMetrics>: `self.insert(..)?` for every metric in order.
RECURSIVE HandleInsertMetrics(_, _, _, _, _)
HandleInsertMetrics(cfg, slf, project_key, metrics, instant) ==
    IF metrics = << >>
    THEN [slf |-> slf, result |-> "Ok"]
    ELSE LET r == insert(cfg, slf, project_key, Head(metrics), instant)
         IN  IF r.result # "Ok" THEN r
             ELSE HandleInsertMetrics(cfg, r.slf, project_key, Tail(metrics), instant)

\* Variant: the MergeBuckets handler propagates the first error, as the
\* InsertMetrics handler does.
RECURSIVE HandleMergeBucketsPropagating(_, _, _, _, _)
HandleMergeBucketsPropagating(cfg, slf, project_key, bucket_list, instant) ==
    IF bucket_list = << >>
    THEN [slf |-> slf, result |-> "Ok", logged |-> << >>]
    ELSE LET r == merge(cfg, slf, project_key, Head(bucket_list), instant)
         IN  IF r.result # "Ok" THEN [slf |-> r.slf, result |-> r.result, logged |-> << >>]
             ELSE HandleMergeBucketsPropagating(cfg, r.slf, project_key,
                                                Tail(bucket_list), instant)

\* Handler<MergeBuckets>: merge_all.
HandleMergeBuckets(cfg, slf, project_key, bucket_list, instant) ==
    merge_all(cfg, slf, project_key, bucket_list, instant)

----------------------------------------------------------------------------
(* Flush sweep.                                                            *)

\* Bucket::from_parts
\* Variant: the bucket carries the end of its interval as its timestamp.
from_parts_at_end(key, bucket_interval, value) ==
    [timestamp |-> key.timestamp + bucket_interval, width |-> bucket_interval,
     name |-> key.metric_name, unit |-> key.metric_unit, value |-> value,
     tags |-> key.tags]

from_parts(key, bucket_interval, value) ==
    [timestamp |-> key.timestamp, width |-> bucket_interval, name |-> key.metric_name,
     unit |-> key.metric_unit, value |-> value, tags |-> key.tags]

\* Variant: an entry counts as elapsed at its deadline already.
elapsed_at_deadline(entry, instant) == instant >= entry.flush_at

\* QueuedBucket::elapsed
elapsed(entry, instant) == instant > entry.flush_at

\* Variant: a sweep removes the elapsed entries only, whatever the state.
FlushKeysElapsed(slf, instant) ==
    {key \in DOMAIN slf.buckets : elapsed(slf.buckets[key], instant)}

\* The entries a sweep removes: all of them when forced, else the elapsed.
FlushKeys(slf, instant) ==
    LET force == (slf.state = "ShuttingDown")
    IN  {key \in DOMAIN slf.buckets : force \/ elapsed(slf.buckets[key], instant)}

\* The orders in which HashMap::retain may visit the removed entries.
Orders(S) ==
    {order \in [1 .. Cardinality(S) -> S] :
        \A i, j \in 1 .. Cardinality(S) : i # j => order[i] # order[j]}

\* Variant: a removed entry gives back the cost of its value alone.
SubtractEntryOfValue(tracker, key, value) ==
    subtract_cost(tracker, key.project_key, ValueCost(value))

\* The cost subtraction of the removal of one entry: key cost, then value cost.
SubtractEntry(tracker, key, value) ==
    subtract_cost(subtract_cost(tracker, key.project_key, KeyCost(key)),
                  key.project_key, ValueCost(value))

RECURSIVE SubtractAll(_, _, _, _)
SubtractAll(tracker, entries, order, i) ==
    IF i > Len(order) THEN tracker
    ELSE SubtractAll(SubtractEntry(tracker, order[i], entries[order[i]].value),
                     entries, order, i + 1)

\* Variant: the buckets of every project are pushed to each project's list.
RECURSIVE ProjectBucketsOfAll(_, _, _, _, _)
ProjectBucketsOfAll(cfg, entries, order, project_key, i) ==
    IF i > Len(order) THEN << >>
    ELSE <<from_parts(order[i], cfg.bucket_interval, entries[order[i]].value)>>
            \o ProjectBucketsOfAll(cfg, entries, order, project_key, i + 1)

\* The buckets pushed to the list of `project_key`, in the order visited.
RECURSIVE ProjectBuckets(_, _, _, _, _)
ProjectBuckets(cfg, entries, order, project_key, i) ==
    IF i > Len(order) THEN << >>
    ELSE LET key == order[i]
             rest == ProjectBuckets(cfg, entries, order, project_key, i + 1)
         IN  IF key.project_key = project_key
             THEN <<from_parts(key, cfg.bucket_interval, entries[key].value)>> \o rest
             ELSE rest

\* Variant: the entries handed over stay in the live map.
pop_flush_buckets_keeping(cfg, slf, instant, order) ==
    LET removed == {order[i] : i \in 1 .. Len(order)}
        projects == {key.project_key : key \in removed}
    IN  [slf |-> [slf EXCEPT
                    !.cost_tracker = SubtractAll(slf.cost_tracker, slf.buckets, order, 1)],
         flushed |-> [p \in projects |-> ProjectBuckets(cfg, slf.buckets, order, p, 1)]]

\* Aggregator::pop_flush_buckets, visiting the removed entries in `order`:
\* the aggregator afterwards and the buckets per project key.
pop_flush_buckets(cfg, slf, instant, order) ==
    LET removed == {order[i] : i \in 1 .. Len(order)}
        projects == {key.project_key : key \in removed}
    IN  [slf |-> [slf EXCEPT
                    !.buckets = [key \in DOMAIN slf.buckets \ removed |-> slf.buckets[key]],
                    !.cost_tracker = SubtractAll(slf.cost_tracker, slf.buckets, order, 1)],
         flushed |-> [p \in projects |-> ProjectBuckets(cfg, slf.buckets, order, p, 1)]]

\* FlushBuckets::new
FlushBuckets(project_key, bucket_list) ==
    [project_key |-> project_key, buckets |-> bucket_list]

\* The FlushBuckets messages try_flush sends: one per project key.
FlushMessages(flushed) == {FlushBuckets(p, flushed[p]) : p \in DOMAIN flushed}

\* Variant: the buckets a receiver returns are discarded.
MergeBackDropping(cfg, slf, msg, instant) ==
    [slf |-> slf, result |-> "Ok", logged |-> << >>]

\* Variant: the returned buckets are merged back without regard to the
\* cost limits.
MergeBackUnlimited(cfg, slf, msg, instant) ==
    merge_all([cfg EXCEPT !.max_total_bucket_bytes = None,
                          !.max_project_key_bucket_bytes = None],
              slf, msg.project_key, msg.buckets, instant)

\* Variant: the returned buckets are merged back only while the aggregator
\* is running.
MergeBackWhileRunning(cfg, slf, msg, instant) ==
    IF slf.state = "Running"
    THEN merge_all(cfg, slf, msg.project_key, msg.buckets, instant)
    ELSE [slf |-> slf, result |-> "Ok"]

\* The continuation of try_flush on the answer Err(buckets) to `msg`: the
\* returned buckets are merged back with merge_all.
MergeBack(cfg, slf, msg, instant) ==
    merge_all(cfg, slf, msg.project_key, msg.buckets, instant)

----------------------------------------------------------------------------
(* Submissions.  Timestamp 9 aligns to 8, inside the acceptance window;    *)
(* timestamp 5 aligns to 4, always too old.                                *)

Metric(name, value, timestamp, tags) ==
    [name |-> name, unit |-> "none", value |-> value, timestamp |-> timestamp,
     tags |-> tags]

MetricValue(ty, v) == [ty |-> ty, v |-> v]

Bucket(timestamp, width, name, value, tags) ==
    [timestamp |-> timestamp, width |-> width, name |-> name, unit |-> "none",
     value |-> value, tags |-> tags]

CounterMetric == Metric("c:foo", MetricValue("Counter", 1), 9, {})
SetMetric == Metric("c:foo", MetricValue("Set", 1), 9, {})
DistributionMetric == Metric("c:foo", MetricValue("Distribution", 1), 9, {})
GaugeMetric == Metric("c:foo", MetricValue("Gauge", 2), 9, {})

TooOldMetric == Metric("c:foo", MetricValue("Counter", 1), 5, {})
InvalidMetrics ==
    {TooOldMetric,
     Metric("c:foobar", MetricValue("Counter", 1), 9, {}),
     Metric("c:f o", MetricValue("Counter", 1), 9, {})}

CounterBucket == Bucket(8, 2, "c:foo", CounterValue(2), {})
DistributionBucket ==
    Bucket(8, 2, "c:foo",
           DistributionValue([values |-> (1 :> 1) @@ (2 :> 1), length |-> 2]), {})
GaugeBucket ==
    Bucket(8, 2, "c:foo",
           GaugeValue([max |-> 3, min |-> 1, sum |-> 4, last |-> 1, count |-> 2]), {})

BadNameBucket == Bucket(8, 2, "c:f o", CounterValue(2), {})
InvalidBuckets == {Bucket(4, 2, "c:foo", CounterValue(2), {}), BadNameBucket}

\* The calls of insert and merge: <<project key, metric or bucket>>.
InsertCalls ==
    ({PK1} \X {CounterMetric, DistributionMetric, SetMetric, GaugeMetric})
        \cup ({PK2} \X {CounterMetric})
        \cup ({PK1} \X InvalidMetrics)

MergeCalls ==
    ({PK1} \X {CounterBucket, DistributionBucket})
        \cup ({PK2} \X InvalidBuckets)

\* The elements of the InsertMetrics and MergeBuckets messages.
BatchMetrics == {CounterMetric, TooOldMetric}
BatchBuckets == {CounterBucket, BadNameBucket}

SeqsUpTo(S, n) == UNION {[1 .. k -> S] : k \in 0 .. n}

InsertMetricsMessages == {PK1} \X SeqsUpTo(BatchMetrics, MaxBatch)
MergeBucketsMessages == {PK1} \X SeqsUpTo(BatchBuckets, MaxBatch)

----------------------------------------------------------------------------
(* The state machine.                                                      *)

Self == [buckets |-> buckets, cost_tracker |-> cost_tracker, state |-> state]

\* No helper has been called on its own.
NoCall == [fn |-> "none"]

\* Aggregator::new
Init ==
    /\ config \in Configs
    /\ buckets = [key \in {} |-> 0]
    /\ cost_tracker = CostTrackerDefault
    /\ state = "Running"
    /\ now = StartMs
    /\ inflight = EmptyBag
    /\ admitted = 0
    /\ helper_call = NoCall

\* An ingest operation that leaves the aggregator as `r.slf`, having
\* admitted `n` elements.
Ingested(r, n) ==
    /\ admitted + n <= MaxAdmitted
    /\ admitted' = admitted + n
    /\ buckets' = r.slf.buckets
    /\ cost_tracker' = r.slf.cost_tracker
    /\ state' = r.slf.state
    /\ UNCHANGED <<helper_call, config, now, inflight>>

\* A call of Aggregator::insert.
Insert ==
    \E call \in InsertCalls :
        LET r == insert(config, Self, call[1], call[2], now)
        IN  Ingested(r, IF r.result = "Ok" THEN 1 ELSE 0)

\* A call of Aggregator::merge.
Merge ==
    \E call \in MergeCalls :
        LET r == merge(config, Self, call[1], call[2], now)
        IN  Ingested(r, IF r.result = "Ok" THEN 1 ELSE 0)

\* The InsertMetrics message.
InsertMetrics ==
    \E msg \in InsertMetricsMessages :
        Ingested(HandleInsertMetrics(config, Self, msg[1], msg[2], now), Len(msg[2]))

\* The MergeBuckets message.
MergeBuckets ==
    \E msg \in MergeBucketsMessages :
        Ingested(HandleMergeBuckets(config, Self, msg[1], msg[2], now), Len(msg[2]))

\* Variant: every Shutdown message starts the shutdown.
HandleShutdownAlways(slf, timeout) == [slf EXCEPT !.state = "ShuttingDown"]

\* Handler<Shutdown>: the aggregator after a Shutdown message with `timeout`.
HandleShutdown(slf, timeout) ==
    IF IsSome(timeout) THEN [slf EXCEPT !.state = "ShuttingDown"] ELSE slf

Shutdown ==
    \E timeout \in {None, Some(1)} :
        LET slf == HandleShutdown(Self, timeout)
        IN  /\ buckets' = slf.buckets
            /\ cost_tracker' = slf.cost_tracker
            /\ state' = slf.state
            /\ UNCHANGED <<helper_call, config, now, inflight, admitted>>

\* Variant: no metrics are accepted once the aggregator is shutting down or
\* a project has reached its own limit.
HandleAcceptsMetricsOfProjects(cfg, slf) ==
    /\ slf.state = "Running"
    /\ \A p \in DOMAIN slf.cost_tracker.cost_per_project_key :
          check_limits_exceeded(slf.cost_tracker, p, cfg.max_total_bucket_bytes,
                                cfg.max_project_key_bucket_bytes) = "Ok"

\* Handler<AcceptsMetrics>: the answer; the aggregator is left as it is.
HandleAcceptsMetrics(cfg, slf) ==
    ~totals_cost_exceeded(slf.cost_tracker, cfg.max_total_bucket_bytes)

AcceptsMetrics ==
    /\ HandleAcceptsMetrics(config, Self) \in BOOLEAN
    /\ UNCHANGED vars

\* Aggregator::try_flush, run by the interval timer: the sweep, and one
\* FlushBuckets message per project key sent to the receiver.
TryFlush ==
    \E order \in Orders(FlushKeys(Self, now)) :
        LET r == pop_flush_buckets(config, Self, now, order)
        IN  /\ buckets' = r.slf.buckets
            /\ cost_tracker' = r.slf.cost_tracker
            /\ state' = r.slf.state
            /\ inflight' = inflight (+) SetToBag(FlushMessages(r.flushed))
            /\ UNCHANGED <<helper_call, config, now, admitted>>

\* The receiver answers Ok: it has consumed the buckets.
ReceiverAccepts ==
    \E msg \in BagToSet(inflight) :
        /\ inflight' = inflight (-) SetToBag({msg})
        /\ UNCHANGED <<helper_call, config, buckets, cost_tracker, state, now, admitted>>

\* The receiver answers Err(buckets): try_flush's continuation merges the
\* returned buckets back with merge_all.
ReceiverRejects ==
    \E msg \in BagToSet(inflight) :
        LET r == MergeBack(config, Self, msg, now)
        IN  /\ inflight' = inflight (-) SetToBag({msg})
            /\ buckets' = r.slf.buckets
            /\ cost_tracker' = r.slf.cost_tracker
            /\ state' = r.slf.state
            /\ UNCHANGED <<helper_call, config, now, admitted>>

\* FLUSH_INTERVAL passes.
Tick ==
    /\ now < StartMs + MaxTicks * FLUSH_INTERVAL
    /\ now' = now + FLUSH_INTERVAL
    /\ UNCHANGED <<helper_call, config, buckets, cost_tracker, state, inflight, admitted>>

Next ==
    \/ Insert
    \/ Merge
    \/ InsertMetrics
    \/ MergeBuckets
    \/ Shutdown
    \/ AcceptsMetrics
    \/ TryFlush
    \/ ReceiverAccepts
    \/ ReceiverRejects
    \/ Tick

Spec == Init /\ [][Next]_vars

\* The submissions alone: no sweep runs and the clock stands still.
IngestNext ==
    \/ Insert
    \/ Merge
    \/ InsertMetrics
    \/ MergeBuckets
    \/ Shutdown

IngestSpec == Init /\ [][IngestNext]_vars

\* Submissions of one sample or one bucket at a time, and shutdown.
SubmitNext ==
    \/ Insert
    \/ Merge
    \/ Shutdown

SubmitSpec == Init /\ [][SubmitNext]_vars

\* The sweep and the receiver, over entries taken up by insert; the
\* configurations include one that debounces backdated buckets.
DebounceConfig == [AggregatorConfig(None, None) EXCEPT !.debounce_delay = 1]

SweepInit ==
    /\ config \in Configs \cup {DebounceConfig}
    /\ buckets = [key \in {} |-> 0]
    /\ cost_tracker = CostTrackerDefault
    /\ state = "Running"
    /\ now = StartMs
    /\ inflight = EmptyBag
    /\ admitted = 0
    /\ helper_call = NoCall

SweepNext ==
    \/ Insert
    \/ Shutdown
    \/ TryFlush
    \/ ReceiverAccepts
    \/ ReceiverRejects
    \/ Tick

SweepSpec == SweepInit /\ [][SweepNext]_vars

\* The helpers of AggregatorConfig called on their own, as the tests of
\* get_bucket_timestamp do: a configuration, an instant, and one call after
\* the other with its arguments and the value returned.
ClockConfigs ==
    {[AggregatorConfig(None, None) EXCEPT !.bucket_interval = interval,
                                          !.max_secs_in_past = past,
                                          !.debounce_delay = debounce] :
        interval \in {1, 2, 3}, past \in {4, 20}, debounce \in {0, 1}}

ClockInstants == {0, StartMs, StartMs + 10, StartMs + FLUSH_INTERVAL}

Timestamps == (0 .. 14) \cup {U64_MAX - 1, U64_MAX}
Widths == (0 .. 4) \cup {U64_MAX}

ClockInit ==
    /\ config \in ClockConfigs
    /\ now \in ClockInstants
    /\ buckets = [key \in {} |-> 0]
    /\ cost_tracker = CostTrackerDefault
    /\ state = "Running"
    /\ inflight = EmptyBag
    /\ admitted = 0
    /\ helper_call = NoCall

\* A call of get_bucket_timestamp.
GetBucketTimestamp ==
    \E timestamp \in Timestamps, bucket_width \in Widths :
        /\ helper_call' =
              [fn |-> "get_bucket_timestamp", timestamp |-> timestamp,
               bucket_width |-> bucket_width,
               returned |-> get_bucket_timestamp(config, timestamp, bucket_width, now)]
        /\ UNCHANGED <<config, buckets, cost_tracker, state, now, inflight, admitted>>

\* A call of get_flush_time, for a bucket timestamp that
\* get_bucket_timestamp returns at this instant.
GetFlushTime ==
    \E bucket_timestamp \in Timestamps, project_key \in ProjectKeys :
        /\ get_bucket_timestamp(config, bucket_timestamp, 0, now)
              = [result |-> "Ok", timestamp |-> bucket_timestamp]
        /\ helper_call' =
              [fn |-> "get_flush_time", bucket_timestamp |-> bucket_timestamp,
               project_key |-> project_key,
               returned |-> get_flush_time(config, bucket_timestamp, project_key, now)]
        /\ UNCHANGED <<config, buckets, cost_tracker, state, now, inflight, admitted>>

ClockNext ==
    \/ GetBucketTimestamp
    \/ GetFlushTime

ClockSpec == ClockInit /\ [][ClockNext]_vars

\* A running aggregator and a receiver that accepts: samples are inserted,
\* the timer sweeps, and every FlushBuckets message is answered Ok.
DeliveryNext ==
    \/ Insert
    \/ TryFlush
    \/ ReceiverAccepts
    \/ Tick

DeliverySpec == SweepInit /\ [][DeliveryNext]_vars

----------------------------------------------------------------------------
(* The value algebra on its own: a bucket value is built and bucket values *)
(* and samples are merged into it, as merge_in does for one entry.         *)

\* Bucket values as they arrive in buckets.
BucketValues ==
    {CounterValue(1), CounterValue(2 ^ MantissaBits),
     DistributionValue(DistInsert(DistNew, 1).dist),
     DistributionValue([values |-> (1 :> 1) @@ (2 :> 2), length |-> 3]),
     SetValue({1}), SetValue({2, 3}),
     GaugeValue(GaugeSingle(1)), GaugeValue(GaugeSingle(5)),
     GaugeValue(GaugeInsert(GaugeSingle(3), 2))}

\* Values of samples.
MetricValues == {MetricValue(ty, v) : ty \in MetricTypes, v \in {1, 2}}

\* The number of samples a bucket value stands for.
Samples(value) ==
    CASE value.ty = "Counter" -> value.value
      [] value.ty = "Distribution" -> value.dist.length
      [] value.ty = "Set" -> Cardinality(value.set)
      [] value.ty = "Gauge" -> value.gauge.count

ValueInit ==
    /\ config = AggregatorConfig(None, None)
    /\ now = StartMs
    /\ buckets = [key \in {} |-> 0]
    /\ cost_tracker = CostTrackerDefault
    /\ state = "Running"
    /\ inflight = EmptyBag
    /\ admitted = 0
    /\ \E value \in BucketValues :
          helper_call = [fn |-> "new",
                         returned |-> [result |-> "Ok", value |-> value]]

\* BucketValue::merge_into: a bucket value is merged into the value at hand.
MergeBucketValue ==
    \E rhs \in BucketValues :
        /\ Samples(helper_call.returned.value) <= MaxMerged
        /\ helper_call' =
              [fn |-> "BucketValue::merge_into", rhs |-> rhs,
               bucket_value |-> helper_call.returned.value,
               returned |-> BucketMergeInto(rhs, helper_call.returned.value)]
        /\ UNCHANGED <<config, buckets, cost_tracker, state, now, inflight, admitted>>

\* MetricValue::merge_into: a sample is merged into the value at hand.
MergeMetricValue ==
    \E mv \in MetricValues :
        /\ Samples(helper_call.returned.value) <= MaxMerged
        /\ helper_call' =
              [fn |-> "MetricValue::merge_into", mv |-> mv,
               bucket_value |-> helper_call.returned.value,
               returned |-> MetricMergeInto(mv, helper_call.returned.value)]
        /\ UNCHANGED <<config, buckets, cost_tracker, state, now, inflight, admitted>>

ValueNext ==
    \/ MergeBucketValue
    \/ MergeMetricValue

ValueSpec == ValueInit /\ [][ValueNext]_vars

----------------------------------------------------------------------------
(* The JSON protocol of buckets.  A payload is an array of objects; an     *)
(* object is the sequence of its <<key, value>> members as written; a      *)
(* number is written as an integer or with a fraction (4 or 4.0).          *)

JsonInt(n) == [num |-> n, fraction |-> FALSE]
JsonFloat(n) == [num |-> n, fraction |-> TRUE]

Has(object, key) == \E i \in DOMAIN object : object[i][1] = key
Get(object, key) == object[CHOOSE i \in DOMAIN object : object[i][1] = key][2]

\* #[serde(rename = "c" | "d" | "s" | "g")]
TypeTag(ty) ==
    CASE ty = "Counter" -> "c"
      [] ty = "Distribution" -> "d"
      [] ty = "Set" -> "s"
      [] ty = "Gauge" -> "g"

\* The order of the tag keys of the corpus in a BTreeMap<String, String>.
TagKeys == <<"env", "k">>
TagRank(tag_key) == CHOOSE i \in DOMAIN TagKeys : TagKeys[i] = tag_key

\* Deserialize for DistributionValue: every element is inserted.
RECURSIVE DeserializeDistribution(_, _)
DeserializeDistribution(array, n) ==
    IF n = 0 THEN DistNew
    ELSE DistInsert(DeserializeDistribution(array, n - 1), array[n].num).dist

\* Deserialize for BucketValue, tagged by "type" with content "value".
\* An integer field does not accept a number written with a fraction.
DeserializeBucketValue(tag, json) ==
    CASE tag = "c" -> [result |-> "Ok", value |-> CounterValue(json.num)]
      [] tag = "d" ->
            [result |-> "Ok",
             value |-> DistributionValue(DeserializeDistribution(json, Len(json)))]
      [] tag = "s" ->
            IF \E i \in DOMAIN json : json[i].fraction
            THEN [result |-> "Err"]
            ELSE [result |-> "Ok",
                  value |-> SetValue({json[i].num : i \in DOMAIN json})]
      [] tag = "g" ->
            IF \/ \E field \in {"max", "min", "sum", "last", "count"} : ~Has(json, field)
               \/ Get(json, "count").fraction
            THEN [result |-> "Err"]
            ELSE [result |-> "Ok",
                  value |-> GaugeValue([max |-> Get(json, "max").num,
                                        min |-> Get(json, "min").num,
                                        sum |-> Get(json, "sum").num,
                                        last |-> Get(json, "last").num,
                                        count |-> Get(json, "count").num])]

\* Bucket::parse: Deserialize for Bucket.  unit and tags have defaults, the
\* value is flattened into the object.
parse(object) ==
    IF \/ \E field \in {"timestamp", "width", "name", "type", "value"} :
             ~Has(object, field)
       \/ Get(object, "timestamp").fraction
       \/ Get(object, "width").fraction
    THEN [result |-> "Err"]
    ELSE LET value == DeserializeBucketValue(Get(object, "type"), Get(object, "value"))
         IN  IF value.result # "Ok" THEN [result |-> "Err"]
             ELSE [result |-> "Ok",
                   bucket |->
                     [timestamp |-> Get(object, "timestamp").num,
                      width |-> Get(object, "width").num,
                      name |-> Get(object, "name"),
                      unit |-> IF Has(object, "unit") THEN Get(object, "unit")
                               ELSE "none",
                      value |-> value.value,
                      tags |-> IF Has(object, "tags")
                               THEN {Get(object, "tags")[i] :
                                        i \in DOMAIN Get(object, "tags")}
                               ELSE {}]]

\* Bucket::parse_all: the buckets of the payload, or the error of the first
\* object that fails.
parse_all(payload) ==
    IF \E i \in DOMAIN payload : parse(payload[i]).result # "Ok"
    THEN [result |-> "Err"]
    ELSE [result |-> "Ok",
          buckets |-> [i \in DOMAIN payload |-> parse(payload[i]).bucket]]

\* DistributionValue::iter_values: every sample in ascending order.
RECURSIVE iter_values(_)
iter_values(values) ==
    IF DOMAIN values = {} THEN << >>
    ELSE LET v == SetMin(DOMAIN values)
         IN  [i \in 1 .. values[v] |-> v]
                \o iter_values([w \in DOMAIN values \ {v} |-> values[w]])

\* The members of a BTreeSet in ascending order.
RECURSIVE AscendingMembers(_)
AscendingMembers(set) ==
    IF set = {} THEN << >>
    ELSE <<SetMin(set)>> \o AscendingMembers(set \ {SetMin(set)})

\* The entries of a BTreeMap of tags in the order of their keys.
RECURSIVE AscendingTags(_)
AscendingTags(tags) ==
    IF tags = {} THEN << >>
    ELSE LET first == CHOOSE t \in tags :
                        \A u \in tags : TagRank(t[1]) <= TagRank(u[1])
         IN  <<first>> \o AscendingTags(tags \ {first})

\* Variant: a distribution is written as its unique values.
SerializeBucketValueUnique(value) ==
    CASE value.ty = "Counter" -> JsonFloat(value.value)
      [] value.ty = "Distribution" ->
            [i \in DOMAIN AscendingMembers(DOMAIN value.dist.values) |->
                JsonFloat(AscendingMembers(DOMAIN value.dist.values)[i])]
      [] value.ty = "Set" ->
            [i \in 1 .. Cardinality(value.set) |->
                JsonInt(AscendingMembers(value.set)[i])]
      [] value.ty = "Gauge" ->
            <<<<"max", JsonFloat(value.gauge.max)>>,
              <<"min", JsonFloat(value.gauge.min)>>,
              <<"sum", JsonFloat(value.gauge.sum)>>,
              <<"last", JsonFloat(value.gauge.last)>>,
              <<"count", JsonInt(value.gauge.count)>>>>

\* Serialize for the content of BucketValue: floats are written with a
\* fraction, integers without.
SerializeBucketValue(value) ==
    CASE value.ty = "Counter" -> JsonFloat(value.value)
      [] value.ty = "Distribution" ->
            [i \in DOMAIN iter_values(value.dist.values) |->
                JsonFloat(iter_values(value.dist.values)[i])]
      [] value.ty = "Set" ->
            [i \in 1 .. Cardinality(value.set) |->
                JsonInt(AscendingMembers(value.set)[i])]
      [] value.ty = "Gauge" ->
            <<<<"max", JsonFloat(value.gauge.max)>>,
              <<"min", JsonFloat(value.gauge.min)>>,
              <<"sum", JsonFloat(value.gauge.sum)>>,
              <<"last", JsonFloat(value.gauge.last)>>,
              <<"count", JsonInt(value.gauge.count)>>>>

\* Serialize for Bucket: the fields in the order of their declaration,
\* unit skipped if none, tags skipped if empty.
serialize(bucket) ==
    <<<<"timestamp", JsonInt(bucket.timestamp)>>,
      <<"width", JsonInt(bucket.width)>>,
      <<"name", bucket.name>>>>
    \o (IF bucket.unit = "none" THEN << >> ELSE <<<<"unit", bucket.unit>>>>)
    \o <<<<"type", TypeTag(bucket.value.ty)>>,
         <<"value", SerializeBucketValue(bucket.value)>>>>
    \o (IF bucket.tags = {} THEN << >>
        ELSE <<<<"tags", AscendingTags(bucket.tags)>>>>)

\* Bucket::serialize_all
serialize_all(bucket_list) == [i \in DOMAIN bucket_list |-> serialize(bucket_list[i])]

\* Values as written in payloads, by type tag: in the form the serializer
\* writes, and with an integer for a float, samples out of order, and
\* members out of order or repeated.
JsonValues ==
    {<<"c", JsonFloat(4)>>, <<"c", JsonInt(4)>>,
     <<"d", <<JsonFloat(1), JsonFloat(2), JsonFloat(2)>>>>,
     <<"d", <<JsonFloat(2), JsonFloat(1)>>>>,
     <<"s", <<JsonInt(1), JsonInt(2)>>>>,
     <<"s", <<JsonInt(2), JsonInt(1)>>>>,
     <<"s", <<JsonInt(1), JsonInt(1)>>>>,
     <<"g", <<<<"max", JsonFloat(3)>>, <<"min", JsonFloat(1)>>,
              <<"sum", JsonFloat(4)>>, <<"last", JsonFloat(1)>>,
              <<"count", JsonInt(2)>>>>>>}

\* The unit member as written: absent, a unit, or none written out.
JsonUnits == {<< >>, <<<<"unit", "s">>>>, <<<<"unit", "none">>>>}

\* The tags member as written: absent, in the order of the keys, in another
\* order, or empty.
JsonTags ==
    {<< >>,
     <<<<"tags", <<<<"env", "a">>, <<"k", "v">>>>>>>>,
     <<<<"tags", <<<<"k", "v">>, <<"env", "a">>>>>>>>,
     <<<<"tags", << >>>>>>}

\* Bucket objects: the members in the order of the protocol, or with the
\* tags in front.
JsonBuckets ==
    {<<<<"timestamp", JsonInt(8)>>, <<"width", JsonInt(2)>>, <<"name", "c:foo">>>>
        \o unit \o <<<<"type", value[1]>>, <<"value", value[2]>>>> \o tags :
        unit \in JsonUnits, value \in JsonValues, tags \in JsonTags}
    \cup
    {tags \o <<<<"timestamp", JsonInt(8)>>, <<"width", JsonInt(2)>>,
               <<"name", "c:foo">>>>
        \o <<<<"type", value[1]>>, <<"value", value[2]>>>> :
        value \in JsonValues, tags \in JsonTags \ {<< >>}}

\* Payloads: every bucket object on its own, and pairs of objects without
\* unit.
Payloads ==
    {<<object>> : object \in JsonBuckets}
    \cup {<<first, second>> :
            first \in {o \in JsonBuckets : ~Has(o, "unit") /\ Has(o, "tags")},
            second \in {o \in JsonBuckets : ~Has(o, "unit") /\ ~Has(o, "tags")}}

WireInit ==
    /\ config = AggregatorConfig(None, None)
    /\ now = StartMs
    /\ buckets = [key \in {} |-> 0]
    /\ cost_tracker = CostTrackerDefault
    /\ state = "Running"
    /\ inflight = EmptyBag
    /\ admitted = 0
    /\ helper_call = NoCall

\* A payload is parsed.
ParseAll ==
    \E payload \in Payloads :
        /\ helper_call' = [fn |-> "parse_all", payload |-> payload,
                           returned |-> parse_all(payload)]
        /\ UNCHANGED <<config, buckets, cost_tracker, state, now, inflight, admitted>>

\* The buckets parsed last are serialized.
SerializeAll ==
    /\ helper_call.fn = "parse_all"
    /\ helper_call.returned.result = "Ok"
    /\ helper_call' = [fn |-> "serialize_all", payload |-> helper_call.payload,
                       buckets |-> helper_call.returned.buckets,
                       returned |-> serialize_all(helper_call.returned.buckets)]
    /\ UNCHANGED <<config, buckets, cost_tracker, state, now, inflight, admitted>>

WireNext ==
    \/ ParseAll
    \/ SerializeAll

WireSpec == WireInit /\ [][WireNext]_vars

----------------------------------------------------------------------------
(* The cost tracker on its own, as test_cost_tracker drives it.            *)

PK3 == "a94ae32be2584e0bbd7a4cbb95971fef"
TrackedKeys == ProjectKeys \cup {PK3}

\* Costs added and subtracted in test_cost_tracker, and 0.
AddedCosts == {0, 20, 100}
SubtractedCosts == {0, 20, 100, 666}

TrackerInit ==
    /\ config = AggregatorConfig(None, None)
    /\ now = StartMs
    /\ buckets = [key \in {} |-> 0]
    /\ cost_tracker = CostTrackerDefault
    /\ state = "Running"
    /\ inflight = EmptyBag
    /\ admitted = 0
    /\ helper_call = NoCall

\* CostTracker::add_cost
AddCost ==
    \E project_key \in TrackedKeys, cost \in AddedCosts :
        /\ cost_tracker.total_cost + cost <= MaxTrackedCost
        /\ cost_tracker' = add_cost(cost_tracker, project_key, cost)
        /\ helper_call' = [fn |-> "add_cost", project_key |-> project_key,
                           cost |-> cost, tracker |-> cost_tracker]
        /\ UNCHANGED <<config, buckets, state, now, inflight, admitted>>

\* CostTracker::subtract_cost
SubtractCost ==
    \E project_key \in TrackedKeys, cost \in SubtractedCosts :
        /\ cost_tracker' = subtract_cost(cost_tracker, project_key, cost)
        /\ helper_call' = [fn |-> "subtract_cost", project_key |-> project_key,
                           cost |-> cost, tracker |-> cost_tracker]
        /\ UNCHANGED <<config, buckets, state, now, inflight, admitted>>

TrackerNext ==
    \/ AddCost
    \/ SubtractCost

TrackerSpec == TrackerInit /\ [][TrackerNext]_vars

----------------------------------------------------------------------------
(* A distribution on its own: it is deserialized from an array of samples  *)
(* and then grown by insert, insert_multi and extend.                       *)

\* Arrays of samples as they arrive in payloads.
SampleArrays ==
    {<< >>, <<JsonFloat(2), JsonFloat(1)>>,
     <<JsonFloat(1), JsonFloat(2), JsonFloat(2)>>}

DistributionInit ==
    /\ config = AggregatorConfig(None, None)
    /\ now = StartMs
    /\ buckets = [key \in {} |-> 0]
    /\ cost_tracker = CostTrackerDefault
    /\ state = "Running"
    /\ inflight = EmptyBag
    /\ admitted = 0
    /\ \E array \in SampleArrays :
          helper_call = [fn |-> "deserialize",
                         dist |-> DeserializeDistribution(array, Len(array))]

\* DistributionValue::insert
DistributionInsert ==
    \E value \in 1 .. 3 :
        /\ helper_call.dist.length <= MaxMerged
        /\ helper_call' = [fn |-> "insert", value |-> value, count |-> 1,
                           returned |-> DistInsert(helper_call.dist, value).ret,
                           dist |-> DistInsert(helper_call.dist, value).dist]
        /\ UNCHANGED <<config, buckets, cost_tracker, state, now, inflight, admitted>>

\* DistributionValue::insert_multi
DistributionInsertMulti ==
    \E value \in 1 .. 3, count \in 0 .. 2 :
        /\ helper_call.dist.length <= MaxMerged
        /\ helper_call' = [fn |-> "insert_multi", value |-> value, count |-> count,
                           returned |-> insert_multi(helper_call.dist, value, count).ret,
                           dist |-> insert_multi(helper_call.dist, value, count).dist]
        /\ UNCHANGED <<config, buckets, cost_tracker, state, now, inflight, admitted>>

\* Extend<(f64, Count)> for DistributionValue
DistributionExtend ==
    \E array \in SampleArrays :
        /\ helper_call.dist.length <= MaxMerged
        /\ helper_call' = [fn |-> "extend",
                           dist |-> DistExtend(helper_call.dist,
                                        DeserializeDistribution(array, Len(array)))]
        /\ UNCHANGED <<config, buckets, cost_tracker, state, now, inflight, admitted>>

DistributionNext ==
    \/ DistributionInsert
    \/ DistributionInsertMulti
    \/ DistributionExtend

DistributionSpec == DistributionInit /\ [][DistributionNext]_vars

----------------------------------------------------------------------------
(* Gauges in the aggregator: gauge samples are inserted and gauge buckets, *)
(* as a client pre-aggregated them, are merged.                            *)

GaugeNames == {"c:foo", "c:bar"}

\* Gauge readings.
GaugeMetrics ==
    {Metric(name, MetricValue("Gauge", v), 9, {}) : name \in GaugeNames, v \in {1, 7}}

\* Gauge summaries as they are deserialized from a payload: the five fields
\* are read as they are written.
GaugeSummaries ==
    {[max |-> 3, min |-> 1, sum |-> 4, last |-> 1, count |-> 2],
     [max |-> 2, min |-> 1, sum |-> 7, last |-> 2, count |-> 2],
     [max |-> 1, min |-> 5, sum |-> 0, last |-> 0, count |-> 0]}

GaugeBuckets == {Bucket(8, 2, "c:foo", GaugeValue(g), {}) : g \in GaugeSummaries}

GaugeInit ==
    /\ config = AggregatorConfig(None, None)
    /\ now = StartMs
    /\ buckets = [key \in {} |-> 0]
    /\ cost_tracker = CostTrackerDefault
    /\ state = "Running"
    /\ inflight = EmptyBag
    /\ admitted = 0
    /\ helper_call = NoCall

\* The aggregator is left as `r.slf` by the call `call`.
GaugeIngested(r, call) ==
    /\ admitted <= MaxMerged
    /\ admitted' = admitted + 1
    /\ buckets' = r.slf.buckets
    /\ cost_tracker' = r.slf.cost_tracker
    /\ state' = r.slf.state
    /\ helper_call' = call
    /\ UNCHANGED <<config, now, inflight>>

\* Aggregator::insert of a gauge reading.
InsertGauge ==
    \E metric \in GaugeMetrics :
        LET r == insert(config, Self, PK1, metric, now)
        IN  GaugeIngested(r, [fn |-> "insert", metric |-> metric, returned |-> r.result])

\* Aggregator::merge of a gauge bucket.
MergeGauge ==
    \E bucket \in GaugeBuckets :
        LET r == merge(config, Self, PK1, bucket, now)
        IN  GaugeIngested(r, [fn |-> "merge", bucket |-> bucket, returned |-> r.result])

GaugeNext ==
    \/ InsertGauge
    \/ MergeGauge

GaugeSpec == GaugeInit /\ [][GaugeNext]_vars

----------------------------------------------------------------------------
(* The aggregator and a receiver that keeps what it accepts, as the        *)
(* TestReceiver of the tests does.  No cost limit is configured and every  *)
(* timestamp stays inside the acceptance window.  The record of the        *)
(* receiver holds the messages it answered Ok, and the samples that insert *)
(* admitted are kept beside it.                                            *)

\* Counter samples of both projects: <<project key, metric>>.
ReceiverSamples ==
    ProjectKeys \X {Metric("c:foo", MetricValue("Counter", v), 9, {}) :
                        v \in {1, 2 ^ MantissaBits}}

ReceiverInit ==
    /\ config = AggregatorConfig(None, None)
    /\ now = StartMs
    /\ buckets = [key \in {} |-> 0]
    /\ cost_tracker = CostTrackerDefault
    /\ state = "Running"
    /\ inflight = EmptyBag
    /\ admitted = 0
    /\ helper_call = [fn |-> "FlushBuckets", data |-> EmptyBag, samples |-> EmptyBag]

\* Aggregator::insert of a counter sample.
IngestSample ==
    \E sample \in ReceiverSamples :
        LET r == insert(config, Self, sample[1], sample[2], now)
        IN  /\ admitted < MaxMerged
            /\ admitted' = admitted + 1
            /\ buckets' = r.slf.buckets
            /\ cost_tracker' = r.slf.cost_tracker
            /\ state' = r.slf.state
            /\ helper_call' =
                  IF r.result = "Ok"
                  THEN [helper_call EXCEPT !.samples = @ (+) SetToBag({sample})]
                  ELSE helper_call
            /\ UNCHANGED <<config, now, inflight>>

\* Handler<FlushBuckets> of a receiver that accepts: the buckets are added
\* to its data and the answer is Ok, on which try_flush does nothing.
ReceiverStores ==
    \E msg \in BagToSet(inflight) :
        /\ inflight' = inflight (-) SetToBag({msg})
        /\ helper_call' = [helper_call EXCEPT !.data = @ (+) SetToBag({msg})]
        /\ UNCHANGED <<config, buckets, cost_tracker, state, now, admitted>>

ReceiverNext ==
    \/ IngestSample
    \/ Shutdown
    \/ TryFlush
    \/ ReceiverStores
    \/ ReceiverRejects
    \/ Tick

ReceiverSpec == ReceiverInit /\ [][ReceiverNext]_vars

----------------------------------------------------------------------------
(* Properties.  The ingest calls considered in every reachable state are   *)
(* all metrics and buckets of the corpus for both project keys.            *)

Metrics == {CounterMetric, DistributionMetric, SetMetric, GaugeMetric} \cup InvalidMetrics
Buckets == {CounterBucket, DistributionBucket, GaugeBucket} \cup InvalidBuckets

AllInsertCalls == ProjectKeys \X Metrics
AllMergeCalls == ProjectKeys \X Buckets

\* The projects with a bucket in flight to the receiver.
InflightProjects == {msg.project_key : msg \in BagToSet(inflight)}

\* Sum over the live entries under `keys` of key cost plus value cost.
RECURSIVE SumOfCosts(_, _)
SumOfCosts(entries, keys) ==
    IF keys = {} THEN 0
    ELSE LET key == CHOOSE k \in keys : TRUE
         IN  KeyCost(key) + ValueCost(entries[key].value)
                + SumOfCosts(entries, keys \ {key})

KeysOfProject(entries, project_key) ==
    {key \in DOMAIN entries : key.project_key = project_key}

\* C1: in every reachable state total_cost is the sum over the live entries
\* of key cost plus current value cost, cost_per_project_key[p] is that sum
\* over the entries of project p, and no project is tracked with cost 0.
CostTrackerMatchesLiveEntries ==
    LET per == cost_tracker.cost_per_project_key
    IN  /\ cost_tracker.total_cost = SumOfCosts(buckets, DOMAIN buckets)
        /\ \A p \in ProjectKeys :
              IF KeysOfProject(buckets, p) = {}
              THEN p \notin DOMAIN per
              ELSE p \in DOMAIN per /\ per[p] = SumOfCosts(buckets, KeysOfProject(buckets, p))
        /\ \A p \in DOMAIN per : per[p] > 0

\* A sweep has removed the entry of the first project and left that of the
\* second, which is all the tracker still accounts for.
CostTrackerMatchesLiveEntriesWitness ==
    /\ PK1 \in InflightProjects
    /\ KeysOfProject(buckets, PK1) = {}
    /\ KeysOfProject(buckets, PK2) # {}
    /\ cost_tracker.total_cost = 165

\* C2: whenever a sweep removes every live entry (forced, or all of them
\* elapsed), whatever ingests and merges built them, the tracker is left
\* with total_cost 0 and an empty cost_per_project_key.
FullSweepLeavesNoCost ==
    \A st \in {"Running", "ShuttingDown"} :
        LET slf == [Self EXCEPT !.state = st]
        IN  FlushKeys(slf, now) = DOMAIN buckets =>
                \A order \in Orders(DOMAIN buckets) :
                    pop_flush_buckets(config, slf, now, order).slf.cost_tracker
                        = [total_cost |-> 0, cost_per_project_key |-> << >>]

\* An entry grown by a merge has elapsed while the aggregator runs: the
\* sweep of this state removes every live entry.
FullSweepLeavesNoCostWitness ==
    /\ state = "Running"
    /\ FlushKeys(Self, now) = DOMAIN buckets
    /\ \E key \in DOMAIN buckets : buckets[key].value = CounterValue(3)

\* The total limit is configured and reached.
TotalLimitReached ==
    /\ IsSome(config.max_total_bucket_bytes)
    /\ cost_tracker.total_cost >= Unwrap(config.max_total_bucket_bytes)

\* The outcome of the checks an ingest passes before the limits are
\* consulted: get_bucket_timestamp, then validate_bucket_key.
Validation(project_key, item, width) ==
    LET aligned == get_bucket_timestamp(config, item.timestamp, width, now)
    IN  IF aligned.result # "Ok" THEN aligned.result
        ELSE validate_bucket_key(config,
                BucketKey(project_key, aligned.timestamp, item.name, item.value.ty,
                          item.unit, item.tags)).result

\* A step that only removes live entries and lowers the total cost: a sweep.
SweepStep ==
    /\ DOMAIN buckets' \subseteq DOMAIN buckets
    /\ DOMAIN buckets' # DOMAIN buckets
    /\ \A key \in DOMAIN buckets' : buckets'[key] = buckets[key]
    /\ cost_tracker'.total_cost < cost_tracker.total_cost

\* C3 as stated: with the total limit reached, every insert and merge fails
\* with TotalLimitExceeded.
TotalLimitFailsEveryIngest ==
    TotalLimitReached =>
        /\ \A call \in AllInsertCalls :
              insert(config, Self, call[1], call[2], now).result = "TotalLimitExceeded"
        /\ \A call \in AllMergeCalls :
              merge(config, Self, call[1], call[2], now).result = "TotalLimitExceeded"

\* C3, amended: with the total limit reached every insert and merge fails,
\* with TotalLimitExceeded when it passes the timestamp and key validation
\* (a merge into a live key included); no step from such a state adds or
\* changes a live entry, and only a sweep ends it.
TotalLimitBlocksIngest ==
    /\ [](TotalLimitReached =>
            /\ \A call \in AllInsertCalls :
                  LET r == insert(config, Self, call[1], call[2], now)
                  IN  /\ r.result # "Ok"
                      /\ Validation(call[1], call[2], 0) = "Ok"
                            => r.result = "TotalLimitExceeded"
            /\ \A call \in AllMergeCalls :
                  LET r == merge(config, Self, call[1], call[2], now)
                  IN  /\ r.result # "Ok"
                      /\ Validation(call[1], call[2], call[2].width) = "Ok"
                            => r.result = "TotalLimitExceeded")
    /\ [][TotalLimitReached =>
            /\ \A key \in DOMAIN buckets' :
                  key \in DOMAIN buckets /\ buckets'[key] = buckets[key]
            /\ ~TotalLimitReached' => SweepStep]_vars

\* The total cost is exactly at the limit and the counter of the first
\* project is live: a merge into it, which would add no cost, is refused.
TotalLimitBlocksIngestWitness ==
    /\ TotalLimitReached
    /\ cost_tracker.total_cost = Unwrap(config.max_total_bucket_bytes)
    /\ BucketKey(PK1, 8, "c:foo", "Counter", "none", {}) \in DOMAIN buckets
    /\ merge(config, Self, PK1, CounterBucket, now).result = "TotalLimitExceeded"
    /\ insert(config, Self, PK2, TooOldMetric, now).result = "InvalidTimestamp"

TrackedCost(project_key) ==
    IF project_key \in DOMAIN cost_tracker.cost_per_project_key
    THEN cost_tracker.cost_per_project_key[project_key]
    ELSE 0

\* The project limit is configured and reached by `project_key`.
ProjectLimitReached(project_key) ==
    /\ IsSome(config.max_project_key_bucket_bytes)
    /\ TrackedCost(project_key) >= Unwrap(config.max_project_key_bucket_bytes)

\* C4 as stated: with the total limit not exceeded and a project limit
\* configured, an insert or merge for p fails with ProjectLimitExceeded if
\* and only if the tracked cost of p has reached the project limit.
ProjectLimitFailsEveryIngest ==
    (IsSome(config.max_project_key_bucket_bytes) /\ ~TotalLimitReached) =>
        /\ \A call \in AllInsertCalls :
              insert(config, Self, call[1], call[2], now).result = "ProjectLimitExceeded"
                <=> ProjectLimitReached(call[1])
        /\ \A call \in AllMergeCalls :
              merge(config, Self, call[1], call[2], now).result = "ProjectLimitExceeded"
                <=> ProjectLimitReached(call[1])

\* What the limits decide for an ingest of `project_key`.
LimitsOutcome(project_key) ==
    IF TotalLimitReached THEN "TotalLimitExceeded"
    ELSE IF ProjectLimitReached(project_key) THEN "ProjectLimitExceeded"
    ELSE "Ok"

\* C4, amended: with a project limit configured, an insert or merge fails
\* with ProjectLimitExceeded only if the total limit is not reached and the
\* tracked cost of its project has reached the project limit; one that
\* passes the timestamp and key validation fails with ProjectLimitExceeded
\* exactly then, fails with TotalLimitExceeded when the total limit is
\* reached (both limits reached included), and is admitted otherwise.
ProjectLimitDecidesValidIngest ==
    IsSome(config.max_project_key_bucket_bytes) =>
        /\ \A call \in AllInsertCalls :
              LET r == insert(config, Self, call[1], call[2], now)
              IN  /\ r.result = "ProjectLimitExceeded"
                        => ProjectLimitReached(call[1]) /\ ~TotalLimitReached
                  /\ Validation(call[1], call[2], 0) = "Ok"
                        => r.result = LimitsOutcome(call[1])
        /\ \A call \in AllMergeCalls :
              LET r == merge(config, Self, call[1], call[2], now)
              IN  /\ r.result = "ProjectLimitExceeded"
                        => ProjectLimitReached(call[1]) /\ ~TotalLimitReached
                  /\ Validation(call[1], call[2], call[2].width) = "Ok"
                        => r.result = LimitsOutcome(call[1])

\* The first project has reached its limit exactly and the total limit is
\* not reached: its ingest is refused, that of the other project admitted.
ProjectLimitDecidesValidIngestWitness ==
    /\ ~TotalLimitReached
    /\ IsSome(config.max_project_key_bucket_bytes)
    /\ TrackedCost(PK1) = Unwrap(config.max_project_key_bucket_bytes)
    /\ insert(config, Self, PK1, CounterMetric, now).result = "ProjectLimitExceeded"
    /\ merge(config, Self, PK1, CounterBucket, now).result = "ProjectLimitExceeded"
    /\ insert(config, Self, PK2, CounterMetric, now).result = "Ok"
    /\ inflight # EmptyBag

\* The metric values of another type than that of `key`.
MismatchedValues(key) ==
    {mv \in {MetricValue("Counter", 1), MetricValue("Set", 1)} : mv.ty # key.metric_type}

\* C5: an insert or merge that returns an error leaves the live map (keys,
\* values, flush deadlines) and the cost tracker exactly as they were.  The
\* InvalidTypes arm, which the keys insert and merge build never reach, is
\* exercised by a merge of a value of another type into a live key.
FailedIngestChangesNothing ==
    /\ \A call \in AllInsertCalls :
          LET r == insert(config, Self, call[1], call[2], now)
          IN  r.result # "Ok" => r.slf = Self
    /\ \A call \in AllMergeCalls :
          LET r == merge(config, Self, call[1], call[2], now)
          IN  r.result # "Ok" => r.slf = Self
    /\ \A key \in DOMAIN buckets :
          \A mv \in MismatchedValues(key) :
              LET r == merge_in(config, Self, key, mv, now)
              IN  r.result # "Ok" => r.slf = Self

\* Live entries of both projects, and calls that fail for the type, for the
\* name and for the timestamp.
FailedIngestChangesNothingWitness ==
    /\ \A p \in ProjectKeys : KeysOfProject(buckets, p) # {}
    /\ \E key \in DOMAIN buckets :
          \E mv \in MismatchedValues(key) :
              merge_in(config, Self, key, mv, now).result = "InvalidTypes"
    /\ merge(config, Self, PK2, BadNameBucket, now).result = "InvalidCharacters"
    /\ \E call \in AllInsertCalls :
          insert(config, Self, call[1], call[2], now).result = "InvalidStringLength"
    /\ \E call \in AllMergeCalls :
          merge(config, Self, call[1], call[2], now).result = "InvalidTimestamp"

\* The aggregator after merge has been called on each of the first `n`
\* buckets in order, whatever each call returned.
RECURSIVE MergeEach(_, _, _, _)
MergeEach(slf, project_key, bucket_list, n) ==
    IF n = 0 THEN slf
    ELSE merge(config, MergeEach(slf, project_key, bucket_list, n - 1),
               project_key, bucket_list[n], now).slf

\* The result of the merge of the `i`-th bucket in that course.
MergeResult(slf, project_key, bucket_list, i) ==
    merge(config, MergeEach(slf, project_key, bucket_list, i - 1),
          project_key, bucket_list[i], now).result

\* The lists of buckets and of metrics considered in every reachable state.
BucketLists == SeqsUpTo({CounterBucket, DistributionBucket, BadNameBucket}, MaxBatch)
MetricLists == SeqsUpTo({CounterMetric, SetMetric, TooOldMetric}, MaxBatch)

\* C6: merge_all returns Ok for every input and leaves the aggregator as
\* merging each bucket in order and ignoring the failures does; a bucket
\* that fails does not keep a later one from being merged.
MergeAllMergesEachBucket ==
    \A p \in ProjectKeys :
        \A bucket_list \in BucketLists :
            LET r == merge_all(config, Self, p, bucket_list, now)
            IN  /\ r.result = "Ok"
                /\ r.slf = MergeEach(Self, p, bucket_list, Len(bucket_list))

\* Live entries of both projects, and a batch whose first bucket fails and
\* whose second is merged all the same.
MergeAllMergesEachBucketWitness ==
    LET r == merge_all(config, Self, PK1, <<BadNameBucket, CounterBucket>>, now)
    IN  /\ \A p \in ProjectKeys : KeysOfProject(buckets, p) # {}
        /\ r.logged = <<"InvalidCharacters">>
        /\ r.slf.buckets # buckets

\* C7 as stated: the MergeBuckets message returns success when every
\* element is admitted and an error when an element fails.
MergeBucketsReturnsFailure ==
    \A p \in ProjectKeys :
        \A bucket_list \in BucketLists :
            HandleMergeBuckets(config, Self, p, bucket_list, now).result = "Ok"
                <=> \A i \in 1 .. Len(bucket_list) :
                        MergeResult(Self, p, bucket_list, i) = "Ok"

\* The aggregator after insert has been called on each of the first `n`
\* metrics in order.
RECURSIVE InsertEach(_, _, _, _)
InsertEach(slf, project_key, metrics, n) ==
    IF n = 0 THEN slf
    ELSE insert(config, InsertEach(slf, project_key, metrics, n - 1),
                project_key, metrics[n], now).slf

InsertResult(slf, project_key, metrics, i) ==
    insert(config, InsertEach(slf, project_key, metrics, i - 1),
           project_key, metrics[i], now).result

\* The error of the first metric that fails, or "Ok".
FirstInsertFailure(slf, project_key, metrics) ==
    LET failing == {i \in 1 .. Len(metrics) :
                        InsertResult(slf, project_key, metrics, i) # "Ok"}
    IN  IF failing = {} THEN "Ok"
        ELSE InsertResult(slf, project_key, metrics,
                          CHOOSE i \in failing : \A j \in failing : i <= j)

\* C7, amended: the InsertMetrics message returns success when every metric
\* is admitted and the error of the first one that fails otherwise; the
\* MergeBuckets message returns success for every list of buckets, those
\* with a failing element included.
OnlyInsertMetricsReturnsFailure ==
    \A p \in ProjectKeys :
        /\ \A metrics \in MetricLists :
              HandleInsertMetrics(config, Self, p, metrics, now).result
                = FirstInsertFailure(Self, p, metrics)
        /\ \A bucket_list \in BucketLists :
              HandleMergeBuckets(config, Self, p, bucket_list, now).result = "Ok"

\* The total limit is reached: a list of one metric is refused with the
\* error, a list of one bucket is refused too and answered with success.
OnlyInsertMetricsReturnsFailureWitness ==
    /\ TotalLimitReached
    /\ HandleInsertMetrics(config, Self, PK1, <<CounterMetric>>, now).result
            = "TotalLimitExceeded"
    /\ merge(config, Self, PK1, CounterBucket, now).result = "TotalLimitExceeded"
    /\ HandleMergeBuckets(config, Self, PK1, <<CounterBucket>>, now).result = "Ok"

\* The other variables of a step that handles a Shutdown message.
ShutdownFrame == UNCHANGED <<helper_call, config, buckets, cost_tracker, now, inflight, admitted>>

\* C8: the state starts as Running; a Shutdown message with a timeout makes
\* it ShuttingDown and one without leaves the state, the live map and the
\* cost tracker as they are; the state changes in no other step, and once
\* ShuttingDown it stays so.
ShutdownIsFinal ==
    /\ state = "Running"
    /\ [](/\ HandleShutdown(Self, None) = Self
          /\ HandleShutdown(Self, Some(1)).state = "ShuttingDown"
          /\ HandleShutdown(Self, Some(1)).buckets = buckets
          /\ HandleShutdown(Self, Some(1)).cost_tracker = cost_tracker)
    /\ [][/\ state = "ShuttingDown" => state' = "ShuttingDown"
          /\ state' # state => state' = "ShuttingDown" /\ ShutdownFrame]_vars

\* The aggregator is still shutting down after a sweep, a tick of the
\* clock and a later ingest.
ShutdownIsFinalWitness ==
    /\ state = "ShuttingDown"
    /\ now > StartMs
    /\ inflight # EmptyBag
    /\ \E key \in DOMAIN buckets : buckets[key].flush_at = now

\* The bucket a sweep hands over for the live entry under `key`.
BucketOf(key) ==
    [timestamp |-> key.timestamp, width |-> config.bucket_interval,
     name |-> key.metric_name, unit |-> key.metric_unit,
     value |-> buckets[key].value, tags |-> key.tags]

\* C9: while ShuttingDown, a sweep removes every live entry whatever its
\* flush deadline: after its extraction the live map is empty and every
\* entry that was live is in the FlushBuckets message of its project.
ForcedSweepFlushesEverything ==
    state = "ShuttingDown" =>
        \A order \in Orders(FlushKeys(Self, now)) :
            LET r == pop_flush_buckets(config, Self, now, order)
                messages == FlushMessages(r.flushed)
            IN  /\ DOMAIN r.slf.buckets = {}
                /\ \A key \in DOMAIN buckets :
                      \E msg \in messages :
                          /\ msg.project_key = key.project_key
                          /\ \E i \in 1 .. Len(msg.buckets) : msg.buckets[i] = BucketOf(key)

\* The aggregator is shutting down with entries of both projects, none of
\* which has elapsed.
ForcedSweepFlushesEverythingWitness ==
    /\ state = "ShuttingDown"
    /\ \A p \in ProjectKeys : KeysOfProject(buckets, p) # {}
    /\ \A key \in DOMAIN buckets : ~elapsed(buckets[key], now)

\* C10: insert and merge return the same result and have the same effect
\* on the live map and the cost tracker whether the aggregator is Running
\* or ShuttingDown, and leave the state as it is.
IngestIgnoresState ==
    \A st \in {"Running", "ShuttingDown"} \ {state} :
        LET other == [Self EXCEPT !.state = st]
        IN  /\ \A call \in AllInsertCalls :
                  LET r == insert(config, Self, call[1], call[2], now)
                      q == insert(config, other, call[1], call[2], now)
                  IN  /\ q.result = r.result
                      /\ q.slf.buckets = r.slf.buckets
                      /\ q.slf.cost_tracker = r.slf.cost_tracker
                      /\ q.slf.state = st
            /\ \A call \in AllMergeCalls :
                  LET r == merge(config, Self, call[1], call[2], now)
                      q == merge(config, other, call[1], call[2], now)
                  IN  /\ q.result = r.result
                      /\ q.slf.buckets = r.slf.buckets
                      /\ q.slf.cost_tracker = r.slf.cost_tracker
                      /\ q.slf.state = st

\* The aggregator is shutting down, its forced sweep is behind it, and an
\* entry has been taken up since; further ingests are admitted.
IngestIgnoresStateWitness ==
    /\ state = "ShuttingDown"
    /\ now = StartMs
    /\ inflight # EmptyBag
    /\ DOMAIN buckets # {}
    /\ insert(config, Self, PK1, CounterMetric, now).result = "Ok"
    /\ merge(config, Self, PK2, CounterBucket, now).result = "Ok"

\* C11: while Running, a sweep removes exactly the entries whose deadline is
\* strictly earlier than the current instant; every entry with
\* flush_at >= now stays with its key, value and flush_at, and the tracker
\* gives up the key and value cost of each removed entry and of no other.
RunningSweepRemovesElapsed ==
    state = "Running" =>
        \A order \in Orders(FlushKeys(Self, now)) :
            LET r == pop_flush_buckets(config, Self, now, order)
                due == {key \in DOMAIN buckets : now > buckets[key].flush_at}
                kept == DOMAIN buckets \ due
            IN  /\ DOMAIN r.slf.buckets = kept
                /\ \A key \in kept :
                      buckets[key].flush_at >= now /\ r.slf.buckets[key] = buckets[key]
                /\ r.slf.cost_tracker.total_cost
                      = cost_tracker.total_cost - SumOfCosts(buckets, due)
                /\ r.slf.cost_tracker.total_cost = SumOfCosts(buckets, kept)
                /\ \A key \in due :
                      \E i \in 1 .. Len(r.flushed[key.project_key]) :
                          r.flushed[key.project_key][i] = BucketOf(key)

\* The aggregator runs with one entry past its deadline and one entry whose
\* deadline is the current instant.
RunningSweepRemovesElapsedWitness ==
    /\ state = "Running"
    /\ \E key \in DOMAIN buckets : now > buckets[key].flush_at
    /\ \E key \in DOMAIN buckets : now = buckets[key].flush_at

\* C12: a sweep sends at most one FlushBuckets message per project; the
\* message of a project carries every bucket of that project the sweep
\* removed, each once, and no bucket of another project.
SweepSendsOneMessagePerProject ==
    \A order \in Orders(FlushKeys(Self, now)) :
        LET r == pop_flush_buckets(config, Self, now, order)
            messages == FlushMessages(r.flushed)
            removed == DOMAIN buckets \ DOMAIN r.slf.buckets
        IN  /\ \A m1, m2 \in messages : m1.project_key = m2.project_key => m1 = m2
            /\ \A key \in removed : \E msg \in messages : msg.project_key = key.project_key
            /\ \A msg \in messages :
                  LET keys == {key \in removed : key.project_key = msg.project_key}
                  IN  /\ keys # {}
                      /\ Len(msg.buckets) = Cardinality(keys)
                      /\ {msg.buckets[i] : i \in 1 .. Len(msg.buckets)}
                            = {BucketOf(key) : key \in keys}

\* The sweep of this state removes entries of both projects.
SweepSendsOneMessagePerProjectWitness ==
    /\ \E key \in FlushKeys(Self, now) : key.project_key = PK1
    /\ \E key \in FlushKeys(Self, now) : key.project_key = PK2

\* The aggregator after the receiver has answered Err(buckets) to each of
\* the messages `answers`, in that order, and the errors logged meanwhile.
RECURSIVE RejectAll(_, _, _, _, _)
RejectAll(cfg, slf, answers, instant, i) ==
    IF i > Len(answers) THEN [slf |-> slf, logged |-> << >>]
    ELSE LET back == MergeBack(cfg, slf, answers[i], instant)
             rest == RejectAll(cfg, back.slf, answers, instant, i + 1)
         IN  [slf |-> rest.slf, logged |-> back.logged \o rest.logged]

\* Every way a sweep of the current state may go when the receiver rejects
\* all of its messages: the live map before and after, and what was logged.
RejectedSweeps ==
    {LET r == pop_flush_buckets(config, Self, now, order)
     IN  [order |-> order, answers |-> answers,
          after |-> RejectAll(config, r.slf, answers, now, 1)] :
        <<order, answers>> \in
            UNION {{order} \X Orders(FlushMessages(
                                pop_flush_buckets(config, Self, now, order).flushed)) :
                   order \in Orders(FlushKeys(Self, now))}}

\* Every returned bucket would pass the timestamp check at merge-back.
TimestampsStillAccepted ==
    \A key \in DOMAIN buckets :
        get_bucket_timestamp(config, key.timestamp, config.bucket_interval, now).result
            = "Ok"

\* C13 as stated, for the sweeps of a running aggregator: when the receiver
\* rejects every message of a sweep and nothing is ingested meanwhile, the
\* live map holds as many entries after the merge-back as before the sweep.
RejectedSweepKeepsMapSize ==
    state = "Running" =>
        \A s \in RejectedSweeps :
            Cardinality(DOMAIN s.after.slf.buckets) = Cardinality(DOMAIN buckets)

\* C13, amended: after the sweep and the merge-back of all its rejected
\* buckets the live map misses exactly the buckets merge-back refused (one
\* logged error each), every remaining entry has its key and value, and no
\* entry is new; with no cost limit configured and the timestamps still
\* accepted nothing is refused, and the number of entries is unchanged.
RejectedSweepLosesOnlyRefusedBuckets ==
    \A s \in RejectedSweeps :
        /\ DOMAIN s.after.slf.buckets \subseteq DOMAIN buckets
        /\ \A key \in DOMAIN s.after.slf.buckets :
              s.after.slf.buckets[key].value = buckets[key].value
        /\ Cardinality(DOMAIN s.after.slf.buckets) + Len(s.after.logged)
              = Cardinality(DOMAIN buckets)
        /\ (/\ config.max_total_bucket_bytes = None
            /\ config.max_project_key_bucket_bytes = None
            /\ TimestampsStillAccepted)
              => s.after.logged = << >>

\* Without limits, the sweep of this state removes two entries while the
\* aggregator runs, and the receiver may reject them.
RejectedSweepLosesOnlyRefusedBucketsWitness ==
    /\ state = "Running"
    /\ config.max_total_bucket_bytes = None
    /\ Cardinality(FlushKeys(Self, now)) = 2

\* The instants of the sweeps that follow the current one, up to the first
\* that lies beyond a debounce delay of one second.
FollowingSweeps == {now + k * FLUSH_INTERVAL : k \in 1 .. (1000 \div FLUSH_INTERVAL) + 1}

\* How often the messages of one sweep deliver `bucket` for `project_key`.
Deliveries(flushed, project_key, bucket) ==
    IF project_key \notin DOMAIN flushed THEN 0
    ELSE Cardinality({i \in 1 .. Len(flushed[project_key]) :
                            flushed[project_key][i] = bucket})

\* C14 as stated, for the buckets merge-back admits: a bucket whose flush
\* was rejected is delivered again by the sweep that follows.
RejectedBucketIsInNextSweep ==
    state = "Running" =>
        \A s \in RejectedSweeps :
            \A key \in DOMAIN s.after.slf.buckets \cap FlushKeys(Self, now) :
                key \in FlushKeys(s.after.slf, now + FLUSH_INTERVAL)

\* C14, amended: a rejected bucket that merge-back admits is live again
\* with a deadline not before the merge-back, which is the merge-back
\* instant plus debounce_delay when the bucket had elapsed; a following
\* sweep delivers it exactly if it is forced or runs strictly after that
\* deadline, and then once: the messages of that sweep hold as many buckets
\* as it removed entries.
RejectedBucketWaitsForNewDeadline ==
    \A s \in RejectedSweeps :
        LET returned == DOMAIN s.after.slf.buckets \cap FlushKeys(Self, now)
        IN  /\ \A key \in returned :
                  LET deadline == s.after.slf.buckets[key].flush_at
                  IN  /\ deadline >= now
                      /\ elapsed(buckets[key], now) =>
                              deadline = now + config.debounce_delay * 1000
                      /\ \A instant \in FollowingSweeps :
                            key \in FlushKeys(s.after.slf, instant)
                                <=> (state = "ShuttingDown" \/ instant > deadline)
            /\ returned # {} =>
                  \A instant \in FollowingSweeps :
                      LET due == FlushKeys(s.after.slf, instant)
                      IN  \A order \in Orders(due) :
                              LET again == pop_flush_buckets(config, s.after.slf,
                                                             instant, order)
                              IN  \A key \in returned :
                                      Deliveries(again.flushed, key.project_key,
                                                 BucketOf(key))
                                          = IF key \in due THEN 1 ELSE 0

\* The aggregator runs with a debounce delay, and the sweep of this state
\* removes an elapsed entry that the receiver may reject.
RejectedBucketWaitsForNewDeadlineWitness ==
    /\ state = "Running"
    /\ config.debounce_delay > 0
    /\ FlushKeys(Self, now) # {}

\* C15: when the flush is forced (state ShuttingDown) the sweep flushes
\* every bucket, and the buckets a rejecting receiver returns are not merged
\* back: the aggregator stays as the sweep left it, with an empty live map.
ForcedFlushIsNotMergedBack ==
    state = "ShuttingDown" =>
        \A order \in Orders(FlushKeys(Self, now)) :
            LET r == pop_flush_buckets(config, Self, now, order)
            IN  /\ DOMAIN r.slf.buckets = {}
                /\ \A msg \in FlushMessages(r.flushed) :
                      MergeBack(config, r.slf, msg, now).slf = r.slf

\* The limit that stands against a merge into project `project_key` of the
\* aggregator `slf`, if any.
LimitReached(slf, project_key) ==
    LET per == slf.cost_tracker.cost_per_project_key
    IN  \/ /\ IsSome(config.max_total_bucket_bytes)
           /\ slf.cost_tracker.total_cost >= Unwrap(config.max_total_bucket_bytes)
        \/ /\ IsSome(config.max_project_key_bucket_bytes)
           /\ project_key \in DOMAIN per
           /\ per[project_key] >= Unwrap(config.max_project_key_bucket_bytes)

LaterGaugeMetric == Metric("c:foo", MetricValue("Gauge", 5), 9, {})

\* C17: the `last` field of a gauge entry is the value of the gauge sample
\* received most recently for its key, also when an older bucket of the key
\* is merged back after a rejected flush: with a bucket of the gauge in
\* flight from a running aggregator, a later sample is inserted and the
\* bucket is then rejected and merged back; `last` is the value of the
\* later sample.
GaugeLastIsLatestSample ==
    \A msg \in BagToSet(inflight) :
        LET later == insert(config, Self, msg.project_key, LaterGaugeMetric, now)
            back == MergeBack(config, later.slf, msg, now)
            older == {key \in DOMAIN back.slf.buckets :
                        /\ key.metric_type = "Gauge"
                        /\ \E i \in 1 .. Len(msg.buckets) :
                              /\ msg.buckets[i].value.ty = "Gauge"
                              /\ msg.buckets[i].name = key.metric_name
                              /\ msg.buckets[i].timestamp = key.timestamp
                              /\ msg.project_key = key.project_key}
        IN  (state = "Running" /\ later.result = "Ok" /\ back.logged = << >>) =>
                \A key \in older :
                    back.slf.buckets[key].value.gauge.last = LaterGaugeMetric.value.v

\* The middle of the incoming bucket of the last call of
\* get_bucket_timestamp, the addition saturating at the largest timestamp.
CalledCenter ==
    LET sum == helper_call.timestamp + helper_call.bucket_width \div 2
    IN  IF sum > U64_MAX THEN U64_MAX ELSE sum

\* C18: whenever get_bucket_timestamp succeeds, the timestamp it returns is
\* divisible by bucket_interval and lies in [c - bucket_interval + 1, c],
\* where c is the timestamp plus half the width (saturating).
AlignedTimestampIsBucketStart ==
    (helper_call.fn = "get_bucket_timestamp" /\ helper_call.returned.result = "Ok") =>
        LET aligned == helper_call.returned.timestamp
        IN  /\ aligned % config.bucket_interval = 0
            /\ CalledCenter - config.bucket_interval + 1 <= aligned
            /\ aligned <= CalledCenter

\* A bucket of width 2 whose middle is the last second of an output bucket
\* of three seconds: the call returns the lower end of the range.
AlignedTimestampIsBucketStartWitness ==
    /\ helper_call.fn = "get_bucket_timestamp"
    /\ helper_call.returned.result = "Ok"
    /\ config.bucket_interval = 3
    /\ helper_call.bucket_width = 2
    /\ helper_call.returned.timestamp = CalledCenter - config.bucket_interval + 1

\* The bounds of the accepted window at the current instant.
MinTimestamp ==
    IF UnixNow(now) > config.max_secs_in_past
    THEN UnixNow(now) - config.max_secs_in_past ELSE 0
MaxTimestamp ==
    IF UnixNow(now) + config.max_secs_in_future > U64_MAX
    THEN U64_MAX ELSE UnixNow(now) + config.max_secs_in_future

\* C19: get_bucket_timestamp fails, with InvalidTimestamp, exactly when the
\* aligned timestamp is strictly below now - max_secs_in_past (saturating at
\* 0) or strictly above now + max_secs_in_future; the aligned value decides,
\* not the raw timestamp, and the largest timestamp with a width is refused
\* instead of wrapping around to an early one.
TimestampOutsideWindowIsInvalid ==
    helper_call.fn = "get_bucket_timestamp" =>
        LET aligned == (CalledCenter \div config.bucket_interval) * config.bucket_interval
            result == helper_call.returned.result
        IN  /\ result \in {"Ok", "InvalidTimestamp"}
            /\ result = "InvalidTimestamp"
                  <=> (aligned < MinTimestamp \/ aligned > MaxTimestamp)
            /\ result = "Ok" => helper_call.returned.timestamp = aligned
            /\ (helper_call.timestamp = U64_MAX /\ helper_call.bucket_width > 0)
                  => result = "InvalidTimestamp"

\* A raw timestamp below the window whose bucket aligns to the lower bound
\* of the window: the call succeeds.
TimestampOutsideWindowIsInvalidWitness ==
    /\ helper_call.fn = "get_bucket_timestamp"
    /\ helper_call.timestamp < MinTimestamp
    /\ helper_call.returned = [result |-> "Ok", timestamp |-> MinTimestamp]

\* C20: for a new entry with aligned timestamp T, when T is representable
\* as an instant and T + bucket_interval + initial_delay is strictly later
\* than now, the deadline is that instant plus the shift of the project;
\* otherwise it is now + debounce_delay, without shift.
FlushTimeIsInitialOrDebounced ==
    helper_call.fn = "get_flush_time" =>
        LET instant == helper_call.bucket_timestamp * 1000 - OriginWallMs
            initial_flush == instant
                                + (config.bucket_interval + config.initial_delay) * 1000
            shift == FnvHash(helper_call.project_key) % (config.bucket_interval * 1000)
        IN  helper_call.returned =
                IF instant >= 0 /\ initial_flush > now
                THEN initial_flush + shift
                ELSE now + config.debounce_delay * 1000

\* The initial flush of the bucket is due at this very instant: the
\* deadline is debounced.
FlushTimeIsInitialOrDebouncedWitness ==
    /\ helper_call.fn = "get_flush_time"
    /\ config.debounce_delay > 0
    /\ helper_call.bucket_timestamp * 1000 - OriginWallMs
            + (config.bucket_interval + config.initial_delay) * 1000 = now
    /\ helper_call.returned = now + config.debounce_delay * 1000

\* The initial flush of the bucket of the last call of get_flush_time, and
\* whether that bucket is a real-time one: its timestamp is an instant and
\* its initial flush is still to come.
CalledInitialFlush ==
    helper_call.bucket_timestamp * 1000 - OriginWallMs
        + (config.bucket_interval + config.initial_delay) * 1000

CalledRealTime ==
    /\ helper_call.fn = "get_flush_time"
    /\ helper_call.bucket_timestamp * 1000 >= OriginWallMs
    /\ CalledInitialFlush > now

CalledShift == helper_call.returned - CalledInitialFlush

\* C21: the shift of a real-time deadline, flush deadline minus initial
\* flush, is at least 0 and below bucket_interval (in ms), is determined by
\* the project key and bucket_interval alone, and is the same in any two
\* calls for the same project, whatever their bucket timestamps.
ShiftIsFixedPerProject ==
    /\ [](CalledRealTime =>
            /\ 0 <= CalledShift
            /\ CalledShift < config.bucket_interval * 1000
            /\ CalledShift
                  = FnvHash(helper_call.project_key) % (config.bucket_interval * 1000))
    /\ [][(/\ CalledRealTime
           /\ CalledRealTime'
           /\ helper_call'.project_key = helper_call.project_key)
              => CalledShift' = CalledShift]_vars

\* A real-time bucket of the second project with buckets of three seconds:
\* its deadline is shifted by more than a second.
ShiftIsFixedPerProjectWitness ==
    /\ CalledRealTime
    /\ helper_call.project_key = PK2
    /\ config.bucket_interval = 3
    /\ CalledShift > 1000

\* The buckets that the messages of the bag `messages` carry, all in all.
RECURSIVE SentBuckets(_)
SentBuckets(messages) ==
    IF BagToSet(messages) = {} THEN 0
    ELSE LET msg == CHOOSE m \in BagToSet(messages) : TRUE
         IN  CopiesIn(msg, messages) * Len(msg.buckets)
                + SentBuckets([m \in BagToSet(messages) \ {msg} |-> messages[m]])

\* The start of the bucket of `key` as an instant, which may lie before the
\* origin of the monotonic clock; a bucket created at the current instant
\* is a real-time one when its initial flush is still to come.
BucketStart(key) == key.timestamp * 1000 - OriginWallMs
RealTime(key) ==
    /\ BucketStart(key) >= 0
    /\ BucketStart(key) + (config.bucket_interval + config.initial_delay) * 1000 > now

\* The live entry under `key` goes with this step, and one message more
\* than before carries its bucket for its project.
DeliveredInStep(key) ==
    /\ key \notin DOMAIN buckets'
    /\ \E msg \in BagToSet(inflight') :
          /\ CopiesIn(msg, inflight') = CopiesIn(msg, inflight) + 1
          /\ msg.project_key = key.project_key
          /\ \E i \in 1 .. Len(msg.buckets) : msg.buckets[i] = BucketOf(key)

RECURSIVE SomeOrder(_)
SomeOrder(keys) ==
    IF keys = {} THEN << >>
    ELSE LET key == CHOOSE k \in keys : TRUE
         IN  <<key>> \o SomeOrder(keys \ {key})

\* Counter samples for one key, among them the smallest number whose
\* successor is not representable, and the runs of such samples.
CounterSample(value) == Metric("c:foo", MetricValue("Counter", value), 9, {})
CounterSamples == {CounterSample(1), CounterSample(2 ^ MantissaBits)}
CounterRuns == SeqsUpTo(CounterSamples, MaxBatch + 1) \ {<< >>}

\* The key of these samples at the current instant.
CounterKey ==
    BucketKey(PK1, get_bucket_timestamp(config, 9, 0, now).timestamp, "c:foo",
              "Counter", "none", {})

\* The arithmetic sum of the samples of a run.
RECURSIVE SumOfSamples(_)
SumOfSamples(run) ==
    IF run = << >> THEN 0 ELSE Head(run).value.v + SumOfSamples(Tail(run))

\* The f64 sum of the first n samples of a run, taken from left to right.
RECURSIVE SumInOrder(_, _)
SumInOrder(run, n) ==
    IF n = 1 THEN run[1].value.v
    ELSE f64_add(SumInOrder(run, n - 1), run[n].value.v)

\* Every sample of the run is admitted when the run is inserted now.
RunAdmitted(run) ==
    \A i \in 1 .. Len(run) : InsertResult(Self, PK1, run, i) = "Ok"

\* The value of the counter bucket that a sweep hands over once the run
\* has been inserted.
FlushedCounter(run) ==
    LET slf == [InsertEach(Self, PK1, run, Len(run)) EXCEPT !.state = "ShuttingDown"]
        order == SomeOrder(FlushKeys(slf, now))
        flushed == pop_flush_buckets(config, slf, now, order).flushed[PK1]
        i == CHOOSE j \in 1 .. Len(flushed) :
                flushed[j].value.ty = "Counter" /\ flushed[j].name = "c:foo"
    IN  flushed[i].value.value

\* The runs that are permutations of `run`.
PermutationsOf(run) ==
    {other \in CounterRuns :
        /\ Len(other) = Len(run)
        /\ \A sample \in CounterSamples :
              Cardinality({i \in 1 .. Len(run) : run[i] = sample})
                = Cardinality({i \in 1 .. Len(run) : other[i] = sample})}

\* C23 as stated: for every run of admitted counter samples of one key
\* inserted after a flush of the key, the flushed value is the sum of the
\* samples, and every permutation of the run yields the same value.
CounterTotalIsSumInAnyOrder ==
    CounterKey \notin DOMAIN buckets =>
        \A run \in CounterRuns :
            RunAdmitted(run) =>
                /\ FlushedCounter(run) = SumOfSamples(run)
                /\ \A other \in PermutationsOf(run) :
                      FlushedCounter(other) = FlushedCounter(run)

\* C23, amended: the flushed value is the f64 sum of the samples taken in
\* the order of receipt; when the sum of the samples (and with it every
\* partial sum) is exactly representable, it is the arithmetic sum, and
\* every permutation of the run yields the same value.
CounterTotalIsSumWhenExact ==
    CounterKey \notin DOMAIN buckets =>
        \A run \in CounterRuns :
            RunAdmitted(run) =>
                /\ FlushedCounter(run) = SumInOrder(run, Len(run))
                /\ SumOfSamples(run) <= 2 ^ MantissaBits =>
                      /\ FlushedCounter(run) = SumOfSamples(run)
                      /\ \A other \in PermutationsOf(run) :
                            FlushedCounter(other) = FlushedCounter(run)

\* No counter of the key is live beside a set of the same name, and runs
\* of three samples are admitted.
CounterTotalIsSumWhenExactWitness ==
    /\ CounterKey \notin DOMAIN buckets
    /\ \E key \in DOMAIN buckets : key.project_key = PK1 /\ key.metric_type = "Set"
    /\ \E run \in CounterRuns : Len(run) = 3 /\ RunAdmitted(run)

\* Two gauge buckets have just been merged.
GaugesMerged ==
    /\ helper_call.fn = "BucketValue::merge_into"
    /\ helper_call.rhs.ty = "Gauge"
    /\ helper_call.bucket_value.ty = "Gauge"

\* C24: merging gauge B into gauge A and A into B gives the same max (the
\* greater of the two), min (the lesser), sum (the sum of the sums) and
\* count (the sum of the counts); last is that of the gauge merged in.
GaugeMergeCommutesExceptLast ==
    GaugesMerged =>
        LET a == helper_call.bucket_value.gauge
            b == helper_call.rhs.gauge
            ab == helper_call.returned.value.gauge
            ba == BucketMergeInto(helper_call.bucket_value, helper_call.rhs).value.gauge
        IN  /\ helper_call.returned.result = "Ok"
            /\ ab.max = ba.max /\ ab.max = Max2(a.max, b.max)
            /\ ab.min = ba.min /\ ab.min = Min2(a.min, b.min)
            /\ ab.sum = ba.sum /\ ab.sum = f64_add(a.sum, b.sum)
            /\ ab.count = ba.count /\ ab.count = a.count + b.count
            /\ ab.last = b.last
            /\ ba.last = a.last

\* Two gauges with different last values have been merged, the target
\* being itself the result of a merge.
GaugeMergeCommutesExceptLastWitness ==
    /\ GaugesMerged
    /\ helper_call.bucket_value.gauge.count > 1
    /\ helper_call.bucket_value.gauge.last # helper_call.rhs.gauge.last
    /\ helper_call.returned.value.gauge.last = helper_call.rhs.gauge.last

\* Distribution samples and distribution buckets submitted for one key.
DistributionItems ==
    {[kind |-> "metric",
      metric |-> Metric("c:foo", MetricValue("Distribution", v), 9, {})] :
        v \in {1, 2}}
    \cup
    {[kind |-> "bucket",
      bucket |-> Bucket(8, 2, "c:foo",
                        DistributionValue([values |-> (1 :> 1) @@ (2 :> 2),
                                           length |-> 3]), {})]}

DistributionRuns == SeqsUpTo(DistributionItems, MaxBatch + 1) \ {<< >>}

\* Aggregator::insert or Aggregator::merge of one submitted item.
Ingest(slf, item) ==
    IF item.kind = "metric"
    THEN insert(config, slf, PK1, item.metric, now)
    ELSE merge(config, slf, PK1, item.bucket, now)

RECURSIVE IngestEach(_, _, _)
IngestEach(slf, run, n) ==
    IF n = 0 THEN slf ELSE Ingest(IngestEach(slf, run, n - 1), run[n]).slf

\* The key under which an item is stored at the current instant.
ItemKey(item) ==
    LET timestamp == IF item.kind = "metric"
                     THEN get_bucket_timestamp(config, item.metric.timestamp, 0, now)
                     ELSE get_bucket_timestamp(config, item.bucket.timestamp,
                                               item.bucket.width, now)
    IN  BucketKey(PK1, timestamp.timestamp, "c:foo", "Distribution", "none", {})

\* Every item of the run is admitted, and all are stored under one key that
\* is not live.
OneKeyRunAdmitted(run) ==
    /\ \A i \in 1 .. Len(run) :
          /\ Ingest(IngestEach(Self, run, i - 1), run[i]).result = "Ok"
          /\ ItemKey(run[i]) = ItemKey(run[1])
    /\ ItemKey(run[1]) \notin DOMAIN buckets

\* The samples submitted by the first n items of a run, as a bag.
RECURSIVE SubmittedSamples(_, _)
SubmittedSamples(run, n) ==
    IF n = 0 THEN EmptyBag
    ELSE SubmittedSamples(run, n - 1)
            (+) (IF run[n].kind = "metric"
                 THEN SetToBag({run[n].metric.value.v})
                 ELSE run[n].bucket.value.dist.values)

\* The distribution that a sweep hands over once the run has been ingested.
FlushedDistribution(run) ==
    LET slf == [IngestEach(Self, run, Len(run)) EXCEPT !.state = "ShuttingDown"]
        order == SomeOrder(FlushKeys(slf, now))
        flushed == pop_flush_buckets(config, slf, now, order).flushed[PK1]
        i == CHOOSE j \in 1 .. Len(flushed) :
                flushed[j].value.ty = "Distribution" /\ flushed[j].name = "c:foo"
    IN  flushed[i].value.dist

\* The run with its first two items exchanged, and the run with its first
\* item moved to the end: every reordering of a run is reached by these two.
ReorderedRuns(run) ==
    {[i \in DOMAIN run |->
        IF i = 1 /\ Len(run) > 1 THEN run[2] ELSE IF i = 2 THEN run[1] ELSE run[i]],
     [i \in DOMAIN run |-> IF i = Len(run) THEN run[1] ELSE run[i + 1]]}

\* C25: the flushed distribution of a run of admitted distribution samples
\* and buckets of one key holds each value as often as it was submitted,
\* whatever the order of the run; a merge adds the counts value by value.
DistributionIsMultisetUnion ==
    /\ \A run \in DistributionRuns :
          OneKeyRunAdmitted(run) =>
              /\ FlushedDistribution(run).values = SubmittedSamples(run, Len(run))
              /\ FlushedDistribution(run).length
                    = BagCardinality(SubmittedSamples(run, Len(run)))
              /\ \A other \in ReorderedRuns(run) :
                    OneKeyRunAdmitted(other)
                        /\ FlushedDistribution(other) = FlushedDistribution(run)
    /\ \A key \in DOMAIN buckets : \A item \in DistributionItems :
          (/\ item.kind = "bucket"
           /\ buckets[key].value.ty = "Distribution") =>
              BucketMergeInto(item.bucket.value, buckets[key].value).value.dist.values
                  = buckets[key].value.dist.values (+) item.bucket.value.dist.values

\* An entry of the project is live under another key, and a run of three
\* items that holds a bucket with a repeated value and a sample is admitted.
DistributionIsMultisetUnionWitness ==
    /\ \E key \in DOMAIN buckets : key.project_key = PK1
    /\ \E run \in DistributionRuns :
          /\ Len(run) = 3
          /\ OneKeyRunAdmitted(run)
          /\ run[1].kind = "metric"
          /\ run[2].kind = "bucket"
          /\ FlushedDistribution(run).values[2] >= 3

\* Samples that differ in the fields of the bucket key: name, type, unit,
\* timestamp and tags, one of which is dropped by validation.
KeyedMetrics ==
    {[Metric(name, MetricValue(ty, 1), timestamp, tags) EXCEPT !.unit = unit] :
        name \in {"c:foo", "c:bar"}, ty \in {"Counter", "Set"},
        unit \in {"none", "s"}, timestamp \in {7, 8, 9},
        tags \in {{}, {<<"k", "v">>}, {<<"k", "v">>, <<"k y", "v">>}}}

\* The tags of a sample that key validation keeps, for the tags above.
ValidatedTags(metric) == metric.tags \ {<<"k y", "v">>}

\* The two samples agree on every field of the bucket key.
SameBucketKey(project_key, metric, other_key, other) ==
    /\ project_key = other_key
    /\ get_bucket_timestamp(config, metric.timestamp, 0, now)
          = get_bucket_timestamp(config, other.timestamp, 0, now)
    /\ metric.name = other.name
    /\ metric.value.ty = other.value.ty
    /\ metric.unit = other.unit
    /\ ValidatedTags(metric) = ValidatedTags(other)

\* The live entries that an ingest left as they were.
Untouched(before, after) ==
    {key \in DOMAIN before.buckets :
        key \in DOMAIN after.buckets /\ after.buckets[key] = before.buckets[key]}

\* C26: two admitted inserts land in the same live entry exactly if they
\* agree on project, aligned timestamp, name, type, unit and validated
\* tags; otherwise each creates or updates its own entry, both entries are
\* live together and the second insert leaves the entry of the first as it
\* was.
EntryIsSharedIffKeysAgree ==
    \A project_key \in {PK1}, other_key \in ProjectKeys :
        \A metric \in {m \in KeyedMetrics : m.name = "c:foo" /\ m.timestamp = 9},
           other \in KeyedMetrics :
            LET first == insert(config, Self, project_key, metric, now)
                second == insert(config, first.slf, other_key, other, now)
                created == DOMAIN first.slf.buckets \ DOMAIN buckets
                entry == CHOOSE key \in created : TRUE
            IN  (/\ first.result = "Ok"
                 /\ second.result = "Ok"
                 /\ created # {}) =>
                    /\ Cardinality(created) = 1
                    /\ IF SameBucketKey(project_key, metric, other_key, other)
                       THEN /\ DOMAIN second.slf.buckets = DOMAIN first.slf.buckets
                            /\ second.slf.buckets[entry].value
                                  = MetricMergeInto(other.value,
                                                    first.slf.buckets[entry].value).value
                            /\ Untouched(first.slf, second.slf)
                                  = DOMAIN first.slf.buckets
                                      \ (IF metric.value.ty = "Set" THEN {} ELSE {entry})
                       ELSE /\ entry \in Untouched(first.slf, second.slf)
                            /\ Cardinality(DOMAIN first.slf.buckets
                                              \ Untouched(first.slf, second.slf)) <= 1
                            /\ \A key \in DOMAIN second.slf.buckets :
                                  key \notin Untouched(first.slf, second.slf) =>
                                      /\ key.project_key = other_key
                                      /\ key.metric_name = other.name
                                      /\ key.metric_type = other.value.ty
                                      /\ key.metric_unit = other.unit
                                      /\ key.tags = ValidatedTags(other)

\* With an entry live, a counter and a set of the same name, two units,
\* two projects and two intervals are each admitted one after the other.
EntryIsSharedIffKeysAgreeWitness ==
    /\ buckets # << >>
    /\ \A field \in {"type", "unit", "project", "timestamp", "tags", "none"} :
          \E other_key \in ProjectKeys, other \in KeyedMetrics :
            LET metric == [Metric("c:foo", MetricValue("Counter", 1), 9, {<<"k", "v">>})
                              EXCEPT !.unit = "s"]
                first == insert(config, Self, PK1, metric, now)
                second == insert(config, first.slf, other_key, other, now)
            IN  /\ first.result = "Ok" /\ second.result = "Ok"
                /\ DOMAIN first.slf.buckets # DOMAIN buckets
                /\ (field = "type") = (other.value.ty # "Counter")
                /\ (field = "unit") = (other.unit # "s")
                /\ (field = "project") = (other_key # PK1)
                /\ (field = "timestamp")
                      = (get_bucket_timestamp(config, other.timestamp, 0, now)
                            # get_bucket_timestamp(config, 9, 0, now))
                /\ (field = "tags") = (ValidatedTags(other) # {<<"k", "v">>})
                /\ other.name = "c:foo"
                /\ (field = "none") = (other.timestamp = 8 /\ other.tags # metric.tags)

\* Tags that validation drops: a key over the length limit, a value over
\* the length limit, and a key with an invalid character.
DroppedTags == {<<"overlongkey", "v">>, <<"env", "toolongvalue">>, <<"k y", "v">>}

\* Tag maps of submissions: every choice of a valid tag and the dropped
\* ones, and a value that is normalized.
TagSets ==
    (SUBSET ({<<"k", "v">>} \cup DroppedTags))
    \cup {{<<"env", "a^@b">>}, {<<"env", "ab">>}, {<<"k", "v">>, <<"env", "a^@b">>}}

\* The tag map under which a submission with these tags is to be stored.
ReducedTags(tags) ==
    {IF t = <<"env", "a^@b">> THEN <<"env", "ab">> ELSE t : t \in tags \ DroppedTags}

TaggedMetric(tags) == Metric("c:foo", MetricValue("Counter", 1), 9, tags)

Merged == helper_call.fn \in {"BucketValue::merge_into", "MetricValue::merge_into"}

\* What was merged in the last call.
MergedIn ==
    IF helper_call.fn = "MetricValue::merge_into" THEN helper_call.mv ELSE helper_call.rhs

\* C28: merge_into succeeds only when the sample or bucket value and the
\* target are of the same variant; for each of the twelve pairs of
\* different variants it returns InvalidTypes and the target is as before.
MismatchedMergeIsInvalidTypes ==
    /\ Merged =>
          /\ (helper_call.returned.result = "Ok")
                = (MergedIn.ty = helper_call.bucket_value.ty)
          /\ MergedIn.ty # helper_call.bucket_value.ty =>
                helper_call.returned
                    = [result |-> "InvalidTypes", value |-> helper_call.bucket_value]
    /\ LET target == helper_call.returned.value
       IN  \A ty \in MetricTypes \ {target.ty} :
              /\ \E rhs \in BucketValues : rhs.ty = ty
              /\ \A rhs \in BucketValues :
                    rhs.ty = ty =>
                        BucketMergeInto(rhs, target)
                            = [result |-> "InvalidTypes", value |-> target]
              /\ \E mv \in MetricValues : mv.ty = ty
              /\ \A mv \in MetricValues :
                    mv.ty = ty =>
                        MetricMergeInto(mv, target)
                            = [result |-> "InvalidTypes", value |-> target]

\* A set has been merged into a gauge that earlier merges built, and was
\* refused.
MismatchedMergeIsInvalidTypesWitness ==
    /\ helper_call.fn = "BucketValue::merge_into"
    /\ helper_call.rhs.ty = "Set"
    /\ helper_call.bucket_value.ty = "Gauge"
    /\ helper_call.bucket_value.gauge.count > 1
    /\ helper_call.returned.result = "InvalidTypes"

\* The aggregator with other costs per project and in another state, the
\* total cost being the same.
SameTotalCost ==
    {[Self EXCEPT !.cost_tracker.cost_per_project_key = per, !.state = s] :
        per \in {[p \in {} |-> 0],
                 [p \in {PK1} |-> cost_tracker.total_cost],
                 [p \in ProjectKeys |-> 2 ^ TimestampBits]},
        s \in {"Running", "ShuttingDown"}}

\* C29: AcceptsMetrics answers true exactly if no total limit is configured
\* or the total cost, which is the cost of all live entries, is below
\* max_total_bucket_bytes; the costs per project and the state of the
\* aggregator have no part in the answer, and the query changes nothing.
AcceptsMetricsIffBelowTotalLimit ==
    /\ HandleAcceptsMetrics(config, Self)
          = (\/ ~IsSome(config.max_total_bucket_bytes)
             \/ cost_tracker.total_cost < Unwrap(config.max_total_bucket_bytes))
    /\ \A slf \in SameTotalCost :
          HandleAcceptsMetrics(config, slf) = HandleAcceptsMetrics(config, Self)
    /\ ENABLED AcceptsMetrics

\* Full aggregator: the total limit is reached while every project is
\* below its own limit, and the answer is false.
AcceptsMetricsIffBelowTotalLimitWitness ==
    /\ IsSome(config.max_total_bucket_bytes)
    /\ cost_tracker.total_cost >= Unwrap(config.max_total_bucket_bytes)
    /\ \A p \in DOMAIN cost_tracker.cost_per_project_key :
          cost_tracker.cost_per_project_key[p]
              < Unwrap(config.max_project_key_bucket_bytes)
    /\ ~HandleAcceptsMetrics(config, Self)

\* The keys of the members of an object in the order written.
MemberKeys(object) == [i \in DOMAIN object |-> object[i][1]]

\* A value in the form of the protocol: floats written with a fraction,
\* samples ascending, members of a set strictly ascending, the fields of a
\* gauge in the order max, min, sum, last, count.
CanonicalValue(tag, json) ==
    CASE tag = "c" -> json.fraction
      [] tag = "d" ->
            /\ \A i \in DOMAIN json : json[i].fraction
            /\ \A i, j \in DOMAIN json : i < j => json[i].num <= json[j].num
      [] tag = "s" ->
            /\ \A i \in DOMAIN json : ~json[i].fraction
            /\ \A i, j \in DOMAIN json : i < j => json[i].num < json[j].num
      [] tag = "g" ->
            /\ MemberKeys(json) = <<"max", "min", "sum", "last", "count">>
            /\ \A i \in 1 .. 4 : json[i][2].fraction
            /\ ~json[5][2].fraction

\* A bucket object in canonical form: the members in the order timestamp,
\* width, name, unit, type, value, tags; no unit member for none; no tags
\* member for no tags, and the tags in the order of their keys.
CanonicalBucket(object) ==
    /\ MemberKeys(object)
          = <<"timestamp", "width", "name">>
              \o (IF Has(object, "unit") THEN <<"unit">> ELSE << >>)
              \o <<"type", "value">>
              \o (IF Has(object, "tags") THEN <<"tags">> ELSE << >>)
    /\ Has(object, "unit") => Get(object, "unit") # "none"
    /\ Has(object, "tags") =>
          /\ Get(object, "tags") # << >>
          /\ \A i, j \in DOMAIN Get(object, "tags") :
                i < j => TagRank(Get(object, "tags")[i][1])
                            < TagRank(Get(object, "tags")[j][1])
    /\ ~Get(object, "timestamp").fraction
    /\ ~Get(object, "width").fraction
    /\ CanonicalValue(Get(object, "type"), Get(object, "value"))

Canonical(payload) == \A i \in DOMAIN payload : CanonicalBucket(payload[i])

RECURSIVE SumOver(_, _)
SumOver(keys, per) ==
    IF keys = {} THEN 0
    ELSE LET key == CHOOSE k \in keys : TRUE
         IN  per[key] + SumOver(keys \ {key}, per)

\* C31: subtract_cost for a project that is not tracked changes nothing;
\* asked for more than is tracked for the project, it removes the project
\* and lowers the total by what was tracked; otherwise it lowers both by
\* the requested amount and removes the project at 0.  The costs of other
\* projects stay, and the total stays the sum of the project costs and
\* does not go below 0.
SubtractCostIsDefensive ==
    helper_call.fn = "subtract_cost" =>
        LET before == helper_call.tracker
            per == before.cost_per_project_key
            p == helper_call.project_key
            cost == helper_call.cost
            after == cost_tracker.cost_per_project_key
        IN  /\ cost_tracker.total_cost >= 0
            /\ cost_tracker.total_cost
                  = SumOver(DOMAIN after, after)
            /\ \A q \in DOMAIN per \ {p} : q \in DOMAIN after /\ after[q] = per[q]
            /\ DOMAIN after \subseteq DOMAIN per
            /\ IF p \notin DOMAIN per
               THEN cost_tracker = before
               ELSE IF cost > per[p]
               THEN /\ p \notin DOMAIN after
                    /\ cost_tracker.total_cost = before.total_cost - per[p]
               ELSE /\ cost_tracker.total_cost = before.total_cost - cost
                    /\ IF per[p] = cost
                       THEN p \notin DOMAIN after
                       ELSE p \in DOMAIN after /\ after[p] = per[p] - cost

\* More than is tracked has been subtracted from one of two tracked
\* projects.
SubtractCostIsDefensiveWitness ==
    /\ helper_call.fn = "subtract_cost"
    /\ helper_call.project_key \in DOMAIN helper_call.tracker.cost_per_project_key
    /\ helper_call.cost
          > helper_call.tracker.cost_per_project_key[helper_call.project_key]
    /\ helper_call.tracker.cost_per_project_key[helper_call.project_key] > 0
    /\ cost_tracker.total_cost > 0

\* Names that are valid, too long, not MRI-shaped, and both.
FailingNames == {"c:foo", "c:foobar", "c:f o", "c:foo bar"}

\* Samples and buckets inside and below the acceptance window with each of
\* the names.
FailingMetrics ==
    {Metric(name, MetricValue("Counter", 1), timestamp, {}) :
        name \in FailingNames, timestamp \in {5, 9}}
FailingBuckets ==
    {Bucket(timestamp, 2, name, CounterValue(2), {}) :
        name \in FailingNames, timestamp \in {4, 8}}

\* The first failure condition that holds for a submission, in the order
\* timestamp, length of the name, characters of the name, total limit,
\* limit of the project.
FirstFailure(project_key, name, aligned) ==
    LET per == cost_tracker.cost_per_project_key
        project_cost == IF project_key \in DOMAIN per THEN per[project_key] ELSE 0
    IN  IF aligned < MinTimestamp \/ aligned > MaxTimestamp THEN "InvalidTimestamp"
        ELSE IF Len(name) > config.max_name_length THEN "InvalidStringLength"
        ELSE IF name \notin {"c:foo", "c:bar", "c:foobar"} THEN "InvalidCharacters"
        ELSE IF /\ IsSome(config.max_total_bucket_bytes)
                /\ cost_tracker.total_cost >= Unwrap(config.max_total_bucket_bytes)
        THEN "TotalLimitExceeded"
        ELSE IF /\ IsSome(config.max_project_key_bucket_bytes)
                /\ project_cost >= Unwrap(config.max_project_key_bucket_bytes)
        THEN "ProjectLimitExceeded"
        ELSE "None"

\* C32: the error of an insert or merge call is the first that applies in
\* the order InvalidTimestamp, InvalidStringLength, InvalidCharacters,
\* TotalLimitExceeded, ProjectLimitExceeded, InvalidTypes; an invalid name
\* is reported as such even when a cost limit is reached.
ErrorIsFirstInFixedOrder ==
    \A project_key \in ProjectKeys :
        /\ \A metric \in FailingMetrics :
              LET first == FirstFailure(project_key, metric.name,
                              metric.timestamp
                                  - (metric.timestamp % config.bucket_interval))
                  result == insert(config, Self, project_key, metric, now).result
              IN  IF first = "None" THEN result \in {"Ok", "InvalidTypes"}
                  ELSE result = first
        /\ \A bucket \in FailingBuckets :
              LET first == FirstFailure(project_key, bucket.name, bucket.timestamp)
                  result == merge(config, Self, project_key, bucket, now).result
              IN  IF first = "None" THEN result \in {"Ok", "InvalidTypes"}
                  ELSE result = first

\* Both limits are reached for a project, and inserts for it fail with
\* each of the four errors that precede the limit of the project.
ErrorIsFirstInFixedOrderWitness ==
    /\ FirstFailure(PK1, "c:foo", 8) = "TotalLimitExceeded"
    /\ cost_tracker.cost_per_project_key[PK1]
          >= Unwrap(config.max_project_key_bucket_bytes)
    /\ \A error \in {"InvalidTimestamp", "InvalidStringLength", "InvalidCharacters",
                     "TotalLimitExceeded"} :
          \E metric \in FailingMetrics :
              insert(config, Self, PK1, metric, now).result = error

\* C33: after deserialization and any inserts, insert_multi calls (also of
\* count 0) and extends, the cached length of a distribution is the sum of
\* the stored counts, every stored count is positive, and len() is the
\* number of samples that iter_values() yields.
DistributionLengthIsSumOfCounts ==
    LET d == helper_call.dist
    IN  /\ d.length = SumOver(DOMAIN d.values, d.values)
        /\ \A value \in DOMAIN d.values : d.values[value] > 0
        /\ d.length = Len(iter_values(d.values))

\* insert_multi with count 0 has been called on a distribution that holds
\* a repeated sample and another one.
DistributionLengthIsSumOfCountsWitness ==
    /\ helper_call.fn = "insert_multi"
    /\ helper_call.count = 0
    /\ helper_call.dist.length >= 3
    /\ Cardinality(DOMAIN helper_call.dist.values) = 2

\* C34 as stated: insert_multi returns the number of times the value
\* occurs in the distribution after the call, also for count 0.
InsertMultiReturnsOccurrences ==
    helper_call.fn = "insert_multi" =>
        helper_call.returned = DistGet(helper_call.dist, helper_call.value)

----------------------------------------------------------------------------
(* C35 *)

LiveGauges(bs) == {key \in DOMAIN bs : bs[key].value.ty = "Gauge"}

\* The summary stands for at least one reading and its extremes are ordered.
GaugeIsBounded(g) == g.count >= 1 /\ g.min <= g.max

\* The average of the summary lies between its extremes.
GaugeAverageIsBetween(g) == g.min * g.count <= g.sum /\ g.sum <= g.max * g.count

GaugeOperand(call) ==
    IF call.fn = "insert" THEN GaugeSingle(call.metric.value.v)
    ELSE call.bucket.value.gauge

GaugeOperandName(call) ==
    IF call.fn = "insert" THEN call.metric.name ELSE call.bucket.name

----------------------------------------------------------------------------
(* C36 *)

\* The entries of `before` are entries of `after` with the variants they had.
VariantsKept(before, after) ==
    \A key \in DOMAIN before :
        /\ key \in DOMAIN after
        /\ after[key].value.ty = before[key].value.ty

\* C36: the value of every live entry is of the variant its key names as
\* metric_type, and no insert and no merge returns InvalidTypes or changes
\* the variant of an entry.
VariantIsTypeOfKey ==
    /\ \A key \in DOMAIN buckets : buckets[key].value.ty = key.metric_type
    /\ \A call \in InsertCalls :
          LET r == insert(config, Self, call[1], call[2], now)
          IN  /\ r.result # "InvalidTypes"
              /\ VariantsKept(buckets, r.slf.buckets)
    /\ \A call \in MergeCalls \cup {<<PK1, GaugeBucket>>} :
          LET r == merge(config, Self, call[1], call[2], now)
          IN  /\ r.result # "InvalidTypes"
              /\ VariantsKept(buckets, r.slf.buckets)

\* Entries of two types live under one name, and a bucket of one type is
\* merged into its own entry.
VariantIsTypeOfKeyWitness ==
    /\ \E key \in DOMAIN buckets :
          /\ key.metric_type = "Counter"
          /\ [key EXCEPT !.metric_type = "Distribution"] \in DOMAIN buckets
    /\ LET r == merge(config, Self, PK1, DistributionBucket, now)
       IN  /\ r.result = "Ok"
           /\ DOMAIN r.slf.buckets = DOMAIN buckets
           /\ r.slf.buckets # buckets

----------------------------------------------------------------------------
(* C37 *)

\* C37: the flush deadline of an entry is computed by get_flush_time at the
\* instant the entry is created, and no step changes it while the entry
\* lives: values merged into the entry later leave flush_at as it is.
FlushAtIsSetOnce ==
    [][\A key \in DOMAIN buckets' :
          IF key \in DOMAIN buckets
          THEN buckets'[key].flush_at = buckets[key].flush_at
          ELSE buckets'[key].flush_at
                  = get_flush_time(config, key.timestamp, key.project_key, now)]_vars

\* An entry took a second sample at an instant at which get_flush_time
\* gives another deadline than the one it was created with.
FlushAtIsSetOnceWitness ==
    \E key \in DOMAIN buckets :
        /\ key.metric_type = "Counter"
        /\ buckets[key].value.value = 2
        /\ now > StartMs
        /\ buckets[key].flush_at
              = get_flush_time(config, key.timestamp, key.project_key, StartMs)
        /\ buckets[key].flush_at
              # get_flush_time(config, key.timestamp, key.project_key, now)
        /\ inflight = EmptyBag

----------------------------------------------------------------------------
(* C38 *)

\* The key of the entry a returned bucket belongs to.
KeyOfBucket(project_key, bucket) ==
    BucketKey(project_key, bucket.timestamp, bucket.name, bucket.value.ty,
              bucket.unit, bucket.tags)

\* The timestamp of the bucket is inside the acceptance window.
InsideWindow(bucket) ==
    get_bucket_timestamp(config, bucket.timestamp, bucket.width, now).result = "Ok"

\* The cost limits admit a value for the project.
LimitsAdmit(project_key) ==
    check_limits_exceeded(cost_tracker, project_key, config.max_total_bucket_bytes,
                          config.max_project_key_bucket_bytes) = "Ok"

\* A bucket in flight that merge admits enters the live map under its key.
ReturnsToItsKey(project_key, bucket) ==
    LET r == merge(config, Self, project_key, bucket, now)
    IN  r.result = "Ok" =>
            /\ DOMAIN r.slf.buckets = DOMAIN buckets \cup {KeyOfBucket(project_key, bucket)}
            /\ \A key \in DOMAIN buckets \ {KeyOfBucket(project_key, bucket)} :
                  r.slf.buckets[key] = buckets[key]

\* Every bucket of every FlushBuckets message in flight has the property.
EveryBucketInFlight(P(_, _)) ==
    \A msg \in BagToSet(inflight) :
        \A i \in DOMAIN msg.buckets : P(msg.project_key, msg.buckets[i])

IsAlignedBucket(project_key, bucket) ==
    /\ bucket.width = config.bucket_interval
    /\ bucket.timestamp % config.bucket_interval = 0
    /\ get_bucket_timestamp(config, bucket.timestamp, bucket.width, now).timestamp
          = bucket.timestamp

ReturnsWhileInsideWindow(project_key, bucket) ==
    InsideWindow(bucket) =>
        merge(config, Self, project_key, bucket, now).result = "Ok"

ReturnsWhileAdmitted(project_key, bucket) ==
    (InsideWindow(bucket) /\ LimitsAdmit(project_key)) <=>
        merge(config, Self, project_key, bucket, now).result = "Ok"

\* C38 as stated: a bucket in flight is aligned, keeps its timestamp when
\* aligned again, and merge takes it back under its key whenever its
\* timestamp is inside the acceptance window.
RejectedBucketReturnsToItsKey ==
    /\ EveryBucketInFlight(IsAlignedBucket)
    /\ EveryBucketInFlight(ReturnsToItsKey)
    /\ EveryBucketInFlight(ReturnsWhileInsideWindow)

\* Aligning an aligned timestamp with the width of the interval gives the
\* timestamp, for every interval.
RealignmentIsIdentity ==
    \A interval \in 1 .. 4 :
        \A multiple \in 0 .. 6 :
            get_bucket_timestamp([config EXCEPT !.bucket_interval = interval],
                                 multiple * interval, interval, now).timestamp
                = multiple * interval

\* C38: the sweep turns each key it removes into a bucket of width
\* bucket_interval with the key's aligned timestamp; aligning it again gives
\* the same timestamp; and merge takes a bucket in flight back under exactly
\* the key it was flushed from if and only if the timestamp is inside the
\* acceptance window and the cost limits admit the project.
SweptBucketReturnsToItsKey ==
    /\ [][\A key \in DOMAIN buckets \ DOMAIN buckets' :
             \E msg \in BagToSet(inflight') :
                 \E i \in DOMAIN msg.buckets :
                     /\ msg.buckets[i].width = config.bucket_interval
                     /\ msg.buckets[i].timestamp = key.timestamp
                     /\ KeyOfBucket(msg.project_key, msg.buckets[i]) = key
      ]_vars
    /\ [](/\ EveryBucketInFlight(IsAlignedBucket)
          /\ EveryBucketInFlight(ReturnsToItsKey)
          /\ EveryBucketInFlight(ReturnsWhileAdmitted)
          /\ RealignmentIsIdentity)

\* A bucket is in flight, its key is not live, and merge creates the entry
\* of that key again at a later instant.
SweptBucketReturnsToItsKeyWitness ==
    /\ now > StartMs
    /\ \E msg \in BagToSet(inflight) :
          \E i \in DOMAIN msg.buckets :
              /\ KeyOfBucket(msg.project_key, msg.buckets[i]) \notin DOMAIN buckets
              /\ buckets # << >>
              /\ merge(config, Self, msg.project_key, msg.buckets[i], now).result = "Ok"
              /\ KeyOfBucket(msg.project_key, msg.buckets[i])
                    \in DOMAIN merge(config, Self, msg.project_key, msg.buckets[i], now).slf.buckets

----------------------------------------------------------------------------
(* C39 *)

\* The metrics of InsertMetrics messages: two that are admitted and two that
\* fail, each with an error of its own.
MessageMetrics ==
    {CounterMetric, DistributionMetric, TooOldMetric,
     Metric("c:foobar", MetricValue("Counter", 1), 9, {})}

MessageLists == SeqsUpTo(MessageMetrics, MaxBatch + 1)

\* The aggregator after insert was called for the first k metrics, one call
\* after the other.
RECURSIVE AfterInserts(_, _, _)
AfterInserts(project_key, metrics, k) ==
    IF k = 0 THEN Self
    ELSE insert(config, AfterInserts(project_key, metrics, k - 1), project_key,
                metrics[k], now).slf

\* The result of the insert of the k-th metric, called after the inserts of
\* the metrics before it.
ResultOfInsert(project_key, metrics, k) ==
    insert(config, AfterInserts(project_key, metrics, k - 1), project_key,
           metrics[k], now).result

FailingInserts(project_key, metrics) ==
    {k \in DOMAIN metrics : ResultOfInsert(project_key, metrics, k) # "Ok"}

FirstOf(S) == CHOOSE k \in S : \A other \in S : k <= other

\* C39: the handler of InsertMetrics returns the error of the first metric
\* whose insert fails and leaves the aggregator as the inserts of the
\* metrics before it left it; the metrics after it are not inserted.  With
\* no failing metric it returns Ok and every metric is inserted.
InsertMetricsStopsAtFirstFailure ==
    \A metrics \in MessageLists :
        LET handled == HandleInsertMetrics(config, Self, PK1, metrics, now)
            failing == FailingInserts(PK1, metrics)
        IN  IF failing = {}
            THEN /\ handled.result = "Ok"
                 /\ handled.slf = AfterInserts(PK1, metrics, Len(metrics))
            ELSE /\ handled.result = ResultOfInsert(PK1, metrics, FirstOf(failing))
                 /\ handled.slf = AfterInserts(PK1, metrics, FirstOf(failing) - 1)

\* A message of three metrics whose second fails: the first is merged, the
\* error of the second is returned, and the third, which insert would admit,
\* is not in the map.
InsertMetricsStopsAtFirstFailureWitness ==
    LET metrics == <<CounterMetric, TooOldMetric, DistributionMetric>>
        handled == HandleInsertMetrics(config, Self, PK1, metrics, now)
    IN  /\ buckets # << >>
        /\ handled.result = "InvalidTimestamp"
        /\ handled.slf.buckets # buckets
        /\ handled.slf.cost_tracker.total_cost > cost_tracker.total_cost
        /\ insert(config, handled.slf, PK1, DistributionMetric, now).result = "Ok"
        /\ insert(config, handled.slf, PK1, DistributionMetric, now).slf.buckets
              # handled.slf.buckets

----------------------------------------------------------------------------
(* C40 *)

\* The key a sample is admitted under.
KeyOfSample(sample) ==
    BucketKey(sample[1],
              get_bucket_timestamp(config, sample[2].timestamp, 0, now).timestamp,
              sample[2].name, sample[2].value.ty, sample[2].unit, sample[2].tags)

\* The arithmetic sum of the admitted samples of the key.
AdmittedTotal(key) ==
    LET samples == helper_call.samples
        ofKey == {s \in BagToSet(samples) : KeyOfSample(s) = key}
    IN  SumOver(ofKey, [s \in ofKey |-> samples[s] * s[2].value.v])

\* The value of the live entry of the key, 0 without one.
LiveTotal(key) == IF key \in DOMAIN buckets THEN buckets[key].value.value ELSE 0

\* The values of the buckets of the key in the messages of a bag.
MessageTotal(msg, key) ==
    LET ofKey == {i \in DOMAIN msg.buckets :
                      KeyOfBucket(msg.project_key, msg.buckets[i]) = key}
    IN  SumOver(ofKey, [i \in ofKey |-> msg.buckets[i].value.value])

MessagesTotal(bag, key) ==
    SumOver(BagToSet(bag), [msg \in BagToSet(bag) |-> bag[msg] * MessageTotal(msg, key)])

\* The keys that a sample, an entry or a bucket was seen under.
ConservedKeys ==
    {KeyOfSample(s) : s \in BagToSet(helper_call.samples)}
        \cup DOMAIN buckets
        \cup UNION {{KeyOfBucket(msg.project_key, msg.buckets[i]) : i \in DOMAIN msg.buckets} :
                        msg \in BagToSet(inflight) \cup BagToSet(helper_call.data)}

Conserved(key) ==
    LiveTotal(key) + MessagesTotal(inflight, key) + MessagesTotal(helper_call.data, key)
        = AdmittedTotal(key)

\* C40 as stated: for every key, live value + values in flight + values
\* accepted is the sum of the admitted samples of the key.
CounterSamplesAreConserved == \A key \in ConservedKeys : Conserved(key)

\* C40: the same for every key whose admitted samples add up without
\* rounding; the value the receiver has accepted never exceeds what was
\* admitted, so no accepted bucket is delivered a second time.
ExactCounterSamplesAreConserved ==
    \A key \in ConservedKeys :
        AdmittedTotal(key) <= 2 ^ MantissaBits =>
            /\ Conserved(key)
            /\ MessagesTotal(helper_call.data, key) <= AdmittedTotal(key)

\* Three samples of one key were admitted: one is with the receiver, one is
\* in flight and one is live.
ExactCounterSamplesAreConservedWitness ==
    \E key \in ConservedKeys :
        /\ AdmittedTotal(key) = 3
        /\ MessagesTotal(helper_call.data, key) = 1
        /\ MessagesTotal(inflight, key) = 1
        /\ LiveTotal(key) = 1

====
